---- MODULE Spec2Model ----
(***************************************************************************)
(* A model of schemasniff's analysis engine (src/src/analyzer.ts) and of   *)
(* the helper modules it imports (src/src/ui.ts holds the utility-class    *)
(* classifier, the CONFIG constants and AnalyzerError).                    *)
(*                                                                         *)
(* Strings of the program are sequences of one-character strings, so that  *)
(* concatenation, regular expressions and sanitising are computed and not  *)
(* assumed.  Numbers that are floating point in the program are exact      *)
(* rationals here, scaled to integers; each scale is named where used.     *)
(***************************************************************************)
EXTENDS Integers, Sequences, FiniteSets, TLC

VARIABLES
    \* deduplicateFields alone: input, output, position
    dd_in, dd_out, dd_pc,
    \* inferType alone: input, output, position
    ty_text, ty_out, ty_pc,
    \* selectBestPattern alone: inputs, ranked list, result, position
    sc_patterns, sc_opts, sc_scored, sc_best, sc_pc,
    \* the confidence arithmetic alone: field map, pattern count, options,
    \* fields, schema confidence, position
    cf_map, cf_count, cf_opts, cf_fields, cf_conf, cf_pc,
    \* the miner, element by element: document, options, index of the tag,
    \* index of the element, open groups, patterns so far, position
    mn_doc, mn_opts, mn_tag, mn_k, mn_groups, mn_results, mn_pc,
    \* analyzeUrl: its arguments
    an_url, an_doc, an_opts,
    \* analyzeUrl: position, browser, locals, calls made, result of this run
    an_pc, an_browser, an_patterns, an_scored, an_best, an_fields, an_calls, an_outcome,
    \* the wall clock, and the results of the runs that have ended
    an_now, an_results

vars_dd == <<dd_in, dd_out, dd_pc>>

vars_ty == <<ty_text, ty_out, ty_pc>>

vars_sc == <<sc_patterns, sc_opts, sc_scored, sc_best, sc_pc>>

vars_cf == <<cf_map, cf_count, cf_opts, cf_fields, cf_conf, cf_pc>>

vars_mn == <<mn_doc, mn_opts, mn_tag, mn_k, mn_groups, mn_results, mn_pc>>

vars_an == <<an_url, an_doc, an_opts, an_pc, an_browser, an_patterns, an_scored, an_best,
             an_fields, an_calls, an_outcome, an_now, an_results>>

vars == <<vars_dd, vars_ty, vars_sc, vars_cf, vars_mn, vars_an>>

(***************************************************************************)
(* Generic helpers                                                         *)
(***************************************************************************)
Range(s) == {s[i] : i \in 1..Len(s)}

Min(a, b) == IF a <= b THEN a ELSE b

Max(a, b) == IF a >= b THEN a ELSE b

Abs(a) == IF a >= 0 THEN a ELSE -a

\* All sequences over S of length 0..n
SeqsUpTo(S, n) == UNION {[1..k -> S] : k \in 0..n}

RECURSIVE SumSeq(_)
SumSeq(s) == IF s = <<>> THEN 0 ELSE s[1] + SumSeq(Tail(s))

\* Math.round(num/den) for num >= 0, den > 0: round half up
RoundDiv(num, den) == (2 * num + den) \div (2 * den)

(***************************************************************************)
(* Characters                                                              *)
(***************************************************************************)
Digits == <<"0", "1", "2", "3", "4", "5", "6", "7", "8", "9">>

DigitSet == Range(Digits)

UpperLetters == <<"A", "B", "C", "D", "E", "F", "G", "H", "I", "J", "K", "L", "M",
                  "N", "O", "P", "Q", "R", "S", "T", "U", "V", "W", "X", "Y", "Z">>

LowerLetters == <<"a", "b", "c", "d", "e", "f", "g", "h", "i", "j", "k", "l", "m",
                  "n", "o", "p", "q", "r", "s", "t", "u", "v", "w", "x", "y", "z">>

\* \s of a JavaScript regular expression, restricted to the characters used
SpaceSet == {" ", "\t", "\n"}

\* \w of a JavaScript regular expression
WordSet == Range(UpperLetters) \cup Range(LowerLetters) \cup DigitSet \cup {"_"}

\* String.prototype.toLowerCase on one character
ToLowerChar(c) ==
    IF \E i \in 1..Len(UpperLetters) : UpperLetters[i] = c
    THEN LowerLetters[CHOOSE i \in 1..Len(UpperLetters) : UpperLetters[i] = c]
    ELSE c

ToLower(s) == [i \in 1..Len(s) |-> ToLowerChar(s[i])]

\* String(n) for a natural number n
RECURSIVE NatToString(_)
NatToString(n) ==
    IF n < 10 THEN <<Digits[n + 1]>>
    ELSE NatToString(n \div 10) \o <<Digits[(n % 10) + 1]>>

\* s[i..j] all drawn from set S (true of an empty range)
AllIn(s, i, j, S) == \A k \in i..j : s[k] \in S

(***************************************************************************)
(* Strings                                                                 *)
(***************************************************************************)
StartsWith(s, p) == Len(s) >= Len(p) /\ SubSeq(s, 1, Len(p)) = p

\* String.prototype.includes
Includes(s, p) == \E i \in 1..(Len(s) - Len(p) + 1) : SubSeq(s, i, i + Len(p) - 1) = p

\* String.prototype.substring(0, n)
Substring0(s, n) == SubSeq(s, 1, Min(n, Len(s)))

RECURSIVE DropSpaces(_)
DropSpaces(s) ==
    IF s # <<>> /\ Head(s) \in SpaceSet THEN DropSpaces(Tail(s)) ELSE s

\* replace(/\s+/g, ' ')
RECURSIVE CollapseSpaces(_)
CollapseSpaces(s) ==
    IF s = <<>> THEN <<>>
    ELSE IF Head(s) \in SpaceSet THEN <<" ">> \o CollapseSpaces(DropSpaces(s))
    ELSE <<Head(s)>> \o CollapseSpaces(Tail(s))

RECURSIVE DropSpacesEnd(_)
DropSpacesEnd(s) ==
    IF s # <<>> /\ s[Len(s)] \in SpaceSet THEN DropSpacesEnd(SubSeq(s, 1, Len(s) - 1)) ELSE s

\* String.prototype.trim
Trim(s) == DropSpacesEnd(DropSpaces(s))

\* Array.prototype.join
RECURSIVE Join(_, _)
Join(parts, sep) ==
    IF parts = <<>> THEN <<>>
    ELSE IF Len(parts) = 1 THEN parts[1]
    ELSE parts[1] \o sep \o Join(Tail(parts), sep)

(***************************************************************************)
(* CONFIG (ui.ts 142-157)                                                  *)
(***************************************************************************)
SAMPLE_COUNT == 5

MAX_TEXT_PREVIEW == 100

MAX_FIELD_NAME_LENGTH == 30

IDEAL_DOM_DEPTH == 4

\* The literal 10 of group.elements.slice(0, 10) (analyzer.ts 388)
MINER_SAMPLE_LIMIT == 10

\* The literal 5 of elements.slice(0, 5) (analyzer.ts 266)
MANUAL_SAMPLE_LIMIT == 5

\* The literal 50 of substring(0, 50) (analyzer.ts 543)
DIVERSITY_TEXT_LIMIT == 50

(***************************************************************************)
(* inferType (analyzer.ts 616-630): a cascade of regular expressions over  *)
(* the trimmed text of a leaf element.                                     *)
(***************************************************************************)
\* The character class [...] of both price expressions, as written at
\* analyzer.ts 619 ("$" and the characters of the file's currency literals;
\* "u201a" stands for the one character U+201A of that class)
CurrencySet == {"$", "Â", "£", "â", "u201a", "¬", "¥"}

\* s[i..Len(s)] matches  \.?\d*$
OptFractionTail(s, i) ==
    \/ i > Len(s)
    \/ AllIn(s, i, Len(s), DigitSet)
    \/ s[i] = "." /\ AllIn(s, i + 1, Len(s), DigitSet)

\* s[i..j] matches  \d+\.?\d*  exactly
NumberBetween(s, i, j) ==
    \E d \in i..j :
        /\ AllIn(s, i, d, DigitSet)
        /\ \/ d = j
           \/ AllIn(s, d + 1, j, DigitSet)
           \/ s[d + 1] = "." /\ AllIn(s, d + 2, j, DigitSet)

\* /^[$...]\s*[\d,]+\.?\d*$/
PriceSymbolFirst(s) ==
    /\ Len(s) >= 2
    /\ s[1] \in CurrencySet
    /\ \E w \in 1..Len(s) - 1 :
          /\ AllIn(s, 2, w, SpaceSet)
          /\ \E d \in w + 1..Len(s) :
                /\ AllIn(s, w + 1, d, DigitSet \cup {","})
                /\ OptFractionTail(s, d + 1)

\* /^\d+\.?\d*\s*[$...]$/
PriceSymbolLast(s) ==
    /\ Len(s) >= 2
    /\ s[Len(s)] \in CurrencySet
    /\ \E e \in 1..Len(s) - 1 :
          /\ NumberBetween(s, 1, e)
          /\ AllIn(s, e + 1, Len(s) - 1, SpaceSet)

\* Mutant: the number test loses its anchors, /\d+\.?\d*/
NumberRe_unanchored(s) == \E i \in 1..Len(s) : s[i] \in DigitSet

\* /^\d+\.?\d*$/
NumberRe(s) == Len(s) >= 1 /\ NumberBetween(s, 1, Len(s))

\* /\d{1,4}[-\/]\d{1,2}[-\/]\d{1,4}/  (found anywhere in s)
DateNumericRe(s) ==
    \E i \in 1..Len(s) : \E a \in 1..4 : \E b \in 1..2 :
        LET p == i + a          \* first separator
            q == p + b + 1      \* second separator
        IN  /\ q + 1 <= Len(s)
            /\ AllIn(s, i, p - 1, DigitSet)
            /\ s[p] \in {"-", "/"}
            /\ AllIn(s, p + 1, q - 1, DigitSet)
            /\ s[q] \in {"-", "/"}
            /\ s[q + 1] \in DigitSet

MonthPrefixes ==
    {<<"j", "a", "n">>, <<"f", "e", "b">>, <<"m", "a", "r">>, <<"a", "p", "r">>,
     <<"m", "a", "y">>, <<"j", "u", "n">>, <<"j", "u", "l">>, <<"a", "u", "g">>,
     <<"s", "e", "p">>, <<"o", "c", "t">>, <<"n", "o", "v">>, <<"d", "e", "c">>}

\* /\b(jan|feb|...|dec)/i  (found anywhere in s)
DateMonthRe(s) ==
    \E i \in 1..Len(s) - 2 :
        /\ i = 1 \/ s[i - 1] \notin WordSet
        /\ ToLower(SubSeq(s, i, i + 2)) \in MonthPrefixes

\* The type's name as text, for the field key `${type}_${path}`
TypeName(type) ==
    CASE type = "price" -> <<"p", "r", "i", "c", "e">>
      [] type = "number" -> <<"n", "u", "m", "b", "e", "r">>
      [] type = "date" -> <<"d", "a", "t", "e">>
      [] type = "text" -> <<"t", "e", "x", "t">>

inferType(text) ==
    IF text = <<>> THEN "text"
    ELSE IF PriceSymbolFirst(text) \/ PriceSymbolLast(text) THEN "price"
    ELSE IF NumberRe(text) THEN "number"
    ELSE IF DateNumericRe(text) \/ DateMonthRe(text) THEN "date"
    ELSE "text"

(***************************************************************************)
(* The utility-class classifier (ui.ts 29-102) and the copy of it that is  *)
(* injected into the page (ui.ts 108-136).  A class token is a string.     *)
(***************************************************************************)
UTILITY_CLASSES ==
    {<<"f", "l", "e", "x">>, <<"g", "r", "i", "d">>, <<"b", "l", "o", "c", "k">>,
     <<"i", "n", "l", "i", "n", "e">>,
     <<"i", "n", "l", "i", "n", "e", "-", "b", "l", "o", "c", "k">>,
     <<"i", "n", "l", "i", "n", "e", "-", "f", "l", "e", "x">>,
     <<"i", "n", "l", "i", "n", "e", "-", "g", "r", "i", "d">>, <<"h", "i", "d", "d", "e", "n">>,
     <<"v", "i", "s", "i", "b", "l", "e">>, <<"i", "n", "v", "i", "s", "i", "b", "l", "e">>,
     <<"c", "o", "n", "t", "e", "n", "t", "s">>, <<"f", "l", "o", "w", "-", "r", "o", "o", "t">>,
     <<"r", "e", "l", "a", "t", "i", "v", "e">>, <<"a", "b", "s", "o", "l", "u", "t", "e">>,
     <<"f", "i", "x", "e", "d">>, <<"s", "t", "i", "c", "k", "y">>,
     <<"s", "t", "a", "t", "i", "c">>,
     <<"i", "t", "e", "m", "s", "-", "c", "e", "n", "t", "e", "r">>,
     <<"i", "t", "e", "m", "s", "-", "s", "t", "a", "r", "t">>,
     <<"i", "t", "e", "m", "s", "-", "e", "n", "d">>,
     <<"i", "t", "e", "m", "s", "-", "s", "t", "r", "e", "t", "c", "h">>,
     <<"i", "t", "e", "m", "s", "-", "b", "a", "s", "e", "l", "i", "n", "e">>,
     <<"j", "u", "s", "t", "i", "f", "y", "-", "c", "e", "n", "t", "e", "r">>,
     <<"j", "u", "s", "t", "i", "f", "y", "-", "s", "t", "a", "r", "t">>,
     <<"j", "u", "s", "t", "i", "f", "y", "-", "e", "n", "d">>,
     <<"j", "u", "s", "t", "i", "f", "y", "-", "b", "e", "t", "w", "e", "e", "n">>,
     <<"j", "u", "s", "t", "i", "f", "y", "-", "a", "r", "o", "u", "n", "d">>,
     <<"f", "l", "e", "x", "-", "r", "o", "w">>, <<"f", "l", "e", "x", "-", "c", "o", "l">>,
     <<"f", "l", "e", "x", "-", "w", "r", "a", "p">>,
     <<"f", "l", "e", "x", "-", "n", "o", "w", "r", "a", "p">>, <<"f", "l", "e", "x", "-", "1">>,
     <<"g", "r", "o", "w">>, <<"s", "h", "r", "i", "n", "k">>, <<"p", "-", "0">>,
     <<"p", "-", "1">>, <<"p", "-", "2">>, <<"p", "-", "3">>, <<"p", "-", "4">>, <<"p", "-", "5">>,
     <<"p", "-", "6">>, <<"p", "-", "8">>, <<"p", "-", "1", "0">>, <<"p", "-", "1", "2">>,
     <<"m", "-", "0">>, <<"m", "-", "1">>, <<"m", "-", "2">>, <<"m", "-", "3">>, <<"m", "-", "4">>,
     <<"m", "-", "5">>, <<"m", "-", "6">>, <<"m", "-", "8">>, <<"m", "-", "1", "0">>,
     <<"m", "-", "1", "2">>, <<"p", "x", "-", "0">>, <<"p", "x", "-", "1">>,
     <<"p", "x", "-", "2">>, <<"p", "x", "-", "3">>, <<"p", "x", "-", "4">>,
     <<"p", "x", "-", "5">>, <<"p", "x", "-", "6">>, <<"p", "x", "-", "8">>,
     <<"p", "y", "-", "0">>, <<"p", "y", "-", "1">>, <<"p", "y", "-", "2">>,
     <<"p", "y", "-", "3">>, <<"p", "y", "-", "4">>, <<"p", "y", "-", "5">>,
     <<"p", "y", "-", "6">>, <<"p", "y", "-", "8">>, <<"m", "x", "-", "a", "u", "t", "o">>,
     <<"m", "y", "-", "a", "u", "t", "o">>, <<"m", "t", "-", "0">>, <<"m", "t", "-", "1">>,
     <<"m", "t", "-", "2">>, <<"m", "t", "-", "4">>, <<"m", "b", "-", "0">>,
     <<"m", "b", "-", "1">>, <<"m", "b", "-", "2">>, <<"m", "b", "-", "4">>,
     <<"g", "a", "p", "-", "0">>, <<"g", "a", "p", "-", "1">>, <<"g", "a", "p", "-", "2">>,
     <<"g", "a", "p", "-", "3">>, <<"g", "a", "p", "-", "4">>, <<"g", "a", "p", "-", "5">>,
     <<"g", "a", "p", "-", "6">>, <<"g", "a", "p", "-", "8">>, <<"w", "-", "f", "u", "l", "l">>,
     <<"w", "-", "a", "u", "t", "o">>, <<"w", "-", "s", "c", "r", "e", "e", "n">>,
     <<"h", "-", "f", "u", "l", "l">>, <<"h", "-", "a", "u", "t", "o">>,
     <<"h", "-", "s", "c", "r", "e", "e", "n">>, <<"m", "i", "n", "-", "w", "-", "0">>,
     <<"m", "i", "n", "-", "h", "-", "0">>, <<"m", "a", "x", "-", "w", "-", "f", "u", "l", "l">>,
     <<"m", "a", "x", "-", "h", "-", "f", "u", "l", "l">>,
     <<"t", "e", "x", "t", "-", "l", "e", "f", "t">>,
     <<"t", "e", "x", "t", "-", "c", "e", "n", "t", "e", "r">>,
     <<"t", "e", "x", "t", "-", "r", "i", "g", "h", "t">>,
     <<"t", "e", "x", "t", "-", "j", "u", "s", "t", "i", "f", "y">>,
     <<"t", "e", "x", "t", "-", "x", "s">>, <<"t", "e", "x", "t", "-", "s", "m">>,
     <<"t", "e", "x", "t", "-", "b", "a", "s", "e">>, <<"t", "e", "x", "t", "-", "l", "g">>,
     <<"t", "e", "x", "t", "-", "x", "l">>, <<"t", "e", "x", "t", "-", "2", "x", "l">>,
     <<"t", "e", "x", "t", "-", "3", "x", "l">>,
     <<"f", "o", "n", "t", "-", "n", "o", "r", "m", "a", "l">>,
     <<"f", "o", "n", "t", "-", "m", "e", "d", "i", "u", "m">>,
     <<"f", "o", "n", "t", "-", "s", "e", "m", "i", "b", "o", "l", "d">>,
     <<"f", "o", "n", "t", "-", "b", "o", "l", "d">>, <<"t", "r", "u", "n", "c", "a", "t", "e">>,
     <<"o", "v", "e", "r", "f", "l", "o", "w", "-", "h", "i", "d", "d", "e", "n">>,
     <<"o", "v", "e", "r", "f", "l", "o", "w", "-", "a", "u", "t", "o">>,
     <<"o", "v", "e", "r", "f", "l", "o", "w", "-", "s", "c", "r", "o", "l", "l">>,
     <<"b", "g", "-", "w", "h", "i", "t", "e">>, <<"b", "g", "-", "b", "l", "a", "c", "k">>,
     <<"b", "g", "-", "t", "r", "a", "n", "s", "p", "a", "r", "e", "n", "t">>,
     <<"t", "e", "x", "t", "-", "w", "h", "i", "t", "e">>,
     <<"t", "e", "x", "t", "-", "b", "l", "a", "c", "k">>, <<"b", "o", "r", "d", "e", "r">>,
     <<"b", "o", "r", "d", "e", "r", "-", "0">>, <<"b", "o", "r", "d", "e", "r", "-", "2">>,
     <<"r", "o", "u", "n", "d", "e", "d">>, <<"r", "o", "u", "n", "d", "e", "d", "-", "m", "d">>,
     <<"r", "o", "u", "n", "d", "e", "d", "-", "l", "g">>,
     <<"r", "o", "u", "n", "d", "e", "d", "-", "f", "u", "l", "l">>,
     <<"s", "h", "a", "d", "o", "w">>, <<"s", "h", "a", "d", "o", "w", "-", "s", "m">>,
     <<"s", "h", "a", "d", "o", "w", "-", "m", "d">>,
     <<"s", "h", "a", "d", "o", "w", "-", "l", "g">>,
     <<"o", "p", "a", "c", "i", "t", "y", "-", "0">>,
     <<"o", "p", "a", "c", "i", "t", "y", "-", "5", "0">>,
     <<"o", "p", "a", "c", "i", "t", "y", "-", "1", "0", "0">>,
     <<"t", "r", "a", "n", "s", "i", "t", "i", "o", "n">>,
     <<"t", "r", "a", "n", "s", "i", "t", "i", "o", "n", "-", "a", "l", "l">>,
     <<"d", "u", "r", "a", "t", "i", "o", "n", "-", "1", "5", "0">>,
     <<"d", "u", "r", "a", "t", "i", "o", "n", "-", "2", "0", "0">>,
     <<"d", "u", "r", "a", "t", "i", "o", "n", "-", "3", "0", "0">>,
     <<"c", "o", "n", "t", "a", "i", "n", "e", "r">>, <<"r", "o", "w">>, <<"c", "o", "l">>,
     <<"d", "-", "f", "l", "e", "x">>, <<"d", "-", "b", "l", "o", "c", "k">>,
     <<"d", "-", "n", "o", "n", "e">>, <<"d", "-", "i", "n", "l", "i", "n", "e">>,
     <<"a", "l", "i", "g", "n", "-", "i", "t", "e", "m", "s", "-", "c", "e", "n", "t", "e", "r">>,
     <<"j", "u", "s", "t", "i", "f", "y", "-", "c", "o", "n", "t", "e", "n", "t", "-", "c", "e", "n", "t", "e", "r">>,
     <<"c", "l", "e", "a", "r", "f", "i", "x">>, <<"w", "r", "a", "p", "p", "e", "r">>,
     <<"i", "n", "n", "e", "r">>, <<"o", "u", "t", "e", "r">>,
     <<"c", "o", "n", "t", "e", "n", "t">>, <<"m", "a", "i", "n">>}

\* s matches  ^prefix(alt1|alt2|...)  and the match ends at the returned
\* positions: the set of lengths n with SubSeq(s, 1, n) in the alternatives
PrefixEnds(s, alts) == {n \in 0..Len(s) : SubSeq(s, 1, n) \in alts}

\* s[i..Len(s)] matches  \d+$
DigitsToEnd(s, i) == i <= Len(s) /\ AllIn(s, i, Len(s), DigitSet)

\* /[:\[\]*@#>~+]/
HasUnsafeChar(cls) ==
    \E i \in 1..Len(cls) : cls[i] \in {":", "[", "]", "*", "@", "#", ">", "~", "+"}

\* /^(sm|md|lg|xl|2xl|hover|focus|active|disabled|dark|light):/
HasStatePrefix(cls) ==
    PrefixEnds(cls, {<<"s", "m", ":">>, <<"m", "d", ":">>, <<"l", "g", ":">>, <<"x", "l", ":">>, <<"2", "x", "l", ":">>, <<"h", "o", "v", "e", "r", ":">>, <<"f", "o", "c", "u", "s", ":">>, <<"a", "c", "t", "i", "v", "e", ":">>,
                     <<"d", "i", "s", "a", "b", "l", "e", "d", ":">>, <<"d", "a", "r", "k", ":">>, <<"l", "i", "g", "h", "t", ":">>}) # {}

\* /^-?(m|p)(t|r|b|l|x|y)?-\[?.+\]?$/ : the prefix, then at least one character
IsSpacingUtility(cls) ==
    \E n \in PrefixEnds(cls, {sign \o mp \o side \o <<"-">> :
                                sign \in {<<>>, <<"-">>}, mp \in {<<"m">>, <<"p">>},
                                side \in {<<>>, <<"t">>, <<"r">>, <<"b">>, <<"l">>, <<"x">>, <<"y">>}}) :
        n < Len(cls)

\* /^(w|h|min-w|min-h|max-w|max-h)-\[?.+\]?$/
IsSizingUtility(cls) ==
    \E n \in PrefixEnds(cls, {<<"w", "-">>, <<"h", "-">>, <<"m", "i", "n", "-", "w", "-">>, <<"m", "i", "n", "-", "h", "-">>, <<"m", "a", "x", "-", "w", "-">>, <<"m", "a", "x", "-", "h", "-">>}) :
        n < Len(cls)

\* /^(text|bg|border|ring)-(gray|slate|...|cyan)-\d+/
IsColorUtility(cls) ==
    \E n \in PrefixEnds(cls, {kind \o <<"-">> \o palette \o <<"-">> :
                                kind \in {<<"t", "e", "x", "t">>, <<"b", "g">>, <<"b", "o", "r", "d", "e", "r">>, <<"r", "i", "n", "g">>},
                                palette \in {<<"g", "r", "a", "y">>, <<"s", "l", "a", "t", "e">>, <<"z", "i", "n", "c">>, <<"n", "e", "u", "t", "r", "a", "l">>, <<"r", "e", "d">>, <<"b", "l", "u", "e">>,
                                             <<"g", "r", "e", "e", "n">>, <<"y", "e", "l", "l", "o", "w">>, <<"p", "u", "r", "p", "l", "e">>, <<"p", "i", "n", "k">>, <<"o", "r", "a", "n", "g", "e">>,
                                             <<"i", "n", "d", "i", "g", "o">>, <<"t", "e", "a", "l">>, <<"c", "y", "a", "n">>}}) :
        n < Len(cls) /\ cls[n + 1] \in DigitSet

\* /^grid-(cols|rows)-\d+$/ or /^(col|row)-span-\d+$/
IsGridUtility(cls) ==
    \E n \in PrefixEnds(cls, {<<"g", "r", "i", "d", "-", "c", "o", "l", "s", "-">>, <<"g", "r", "i", "d", "-", "r", "o", "w", "s", "-">>, <<"c", "o", "l", "-", "s", "p", "a", "n", "-">>, <<"r", "o", "w", "-", "s", "p", "a", "n", "-">>}) :
        DigitsToEnd(cls, n + 1)

\* /^text-(xs|sm|base|lg|xl|2xl|3xl|4xl|5xl)$/
IsTextSizeUtility(cls) ==
    cls \in {<<"t", "e", "x", "t", "-">> \o size : size \in {<<"x", "s">>, <<"s", "m">>, <<"b", "a", "s", "e">>, <<"l", "g">>, <<"x", "l">>, <<"2", "x", "l">>, <<"3", "x", "l">>, <<"4", "x", "l">>, <<"5", "x", "l">>}}

\* /^font-(thin|extralight|light|normal|medium|semibold|bold|extrabold|black)$/
IsFontWeightUtility(cls) ==
    cls \in {<<"f", "o", "n", "t", "-">> \o w : w \in {<<"t", "h", "i", "n">>, <<"e", "x", "t", "r", "a", "l", "i", "g", "h", "t">>, <<"l", "i", "g", "h", "t">>, <<"n", "o", "r", "m", "a", "l">>, <<"m", "e", "d", "i", "u", "m">>,
                                  <<"s", "e", "m", "i", "b", "o", "l", "d">>, <<"b", "o", "l", "d">>, <<"e", "x", "t", "r", "a", "b", "o", "l", "d">>, <<"b", "l", "a", "c", "k">>}}

\* isUtilityClass as exported (ui.ts 75-94)
isUtilityClass(cls) ==
    \/ cls \in UTILITY_CLASSES
    \/ HasUnsafeChar(cls)
    \/ HasStatePrefix(cls)
    \/ IsSpacingUtility(cls)
    \/ IsSizingUtility(cls)
    \/ IsColorUtility(cls)
    \/ IsGridUtility(cls)
    \/ IsTextSizeUtility(cls)
    \/ IsFontWeightUtility(cls)

(***************************************************************************)
(* getInjectableUtilityLogic (ui.ts 108-136) writes the classifier a       *)
(* second time, as the text of a template literal that the page evaluates. *)
(* The page's classifier is what that text means once the template literal *)
(* has replaced its escape sequences and inserted JSON.stringify of the    *)
(* class list.                                                             *)
(***************************************************************************)
\* The regular expressions of the exported function, in order (ui.ts 78-92)
UtilityRuleSources ==
    <<<<"[", ":", "\\", "[", "\\", "]", "*", "@", "#", ">", "~", "+", "]">>,
      <<"^", "(", "s", "m", "|", "m", "d", "|", "l", "g", "|", "x", "l", "|", "2", "x", "l", "|", "h", "o", "v", "e", "r", "|", "f", "o", "c", "u", "s", "|", "a", "c", "t", "i", "v", "e", "|", "d", "i", "s", "a", "b", "l", "e", "d", "|", "d", "a", "r", "k", "|", "l", "i", "g", "h", "t", ")", ":">>,
      <<"^", "-", "?", "(", "m", "|", "p", ")", "(", "t", "|", "r", "|", "b", "|", "l", "|", "x", "|", "y", ")", "?", "-", "\\", "[", "?", ".", "+", "\\", "]", "?", "$">>,
      <<"^", "(", "w", "|", "h", "|", "m", "i", "n", "-", "w", "|", "m", "i", "n", "-", "h", "|", "m", "a", "x", "-", "w", "|", "m", "a", "x", "-", "h", ")", "-", "\\", "[", "?", ".", "+", "\\", "]", "?", "$">>,
      <<"^", "(", "t", "e", "x", "t", "|", "b", "g", "|", "b", "o", "r", "d", "e", "r", "|", "r", "i", "n", "g", ")", "-", "(", "g", "r", "a", "y", "|", "s", "l", "a", "t", "e", "|", "z", "i", "n", "c", "|", "n", "e", "u", "t", "r", "a", "l", "|", "r", "e", "d", "|", "b", "l", "u", "e", "|", "g", "r", "e", "e", "n", "|", "y", "e", "l", "l", "o", "w", "|", "p", "u", "r", "p", "l", "e", "|", "p", "i", "n", "k", "|", "o", "r", "a", "n", "g", "e", "|", "i", "n", "d", "i", "g", "o", "|", "t", "e", "a", "l", "|", "c", "y", "a", "n", ")", "-", "\\", "d", "+">>,
      <<"^", "g", "r", "i", "d", "-", "(", "c", "o", "l", "s", "|", "r", "o", "w", "s", ")", "-", "\\", "d", "+", "$">>,
      <<"^", "(", "c", "o", "l", "|", "r", "o", "w", ")", "-", "s", "p", "a", "n", "-", "\\", "d", "+", "$">>,
      <<"^", "t", "e", "x", "t", "-", "(", "x", "s", "|", "s", "m", "|", "b", "a", "s", "e", "|", "l", "g", "|", "x", "l", "|", "2", "x", "l", "|", "3", "x", "l", "|", "4", "x", "l", "|", "5", "x", "l", ")", "$">>,
      <<"^", "f", "o", "n", "t", "-", "(", "t", "h", "i", "n", "|", "e", "x", "t", "r", "a", "l", "i", "g", "h", "t", "|", "l", "i", "g", "h", "t", "|", "n", "o", "r", "m", "a", "l", "|", "m", "e", "d", "i", "u", "m", "|", "s", "e", "m", "i", "b", "o", "l", "d", "|", "b", "o", "l", "d", "|", "e", "x", "t", "r", "a", "b", "o", "l", "d", "|", "b", "l", "a", "c", "k", ")", "$">>>>
\* The same places of the template literal, as written (ui.ts 114-121)
InjectedRuleTemplateText ==
    <<<<"[", ":", "\\", "\\", "[", "\\", "\\", "]", "*", "@", "#", ">", "~", "+", "]">>,
      <<"^", "(", "s", "m", "|", "m", "d", "|", "l", "g", "|", "x", "l", "|", "2", "x", "l", "|", "h", "o", "v", "e", "r", "|", "f", "o", "c", "u", "s", "|", "a", "c", "t", "i", "v", "e", "|", "d", "i", "s", "a", "b", "l", "e", "d", "|", "d", "a", "r", "k", "|", "l", "i", "g", "h", "t", ")", ":">>,
      <<"^", "-", "?", "(", "m", "|", "p", ")", "(", "t", "|", "r", "|", "b", "|", "l", "|", "x", "|", "y", ")", "?", "-", "\\", "\\", "[", "?", ".", "+", "\\", "\\", "]", "?", "$">>,
      <<"^", "(", "w", "|", "h", "|", "m", "i", "n", "-", "w", "|", "m", "i", "n", "-", "h", "|", "m", "a", "x", "-", "w", "|", "m", "a", "x", "-", "h", ")", "-", "\\", "\\", "[", "?", ".", "+", "\\", "\\", "]", "?", "$">>,
      <<"^", "(", "t", "e", "x", "t", "|", "b", "g", "|", "b", "o", "r", "d", "e", "r", "|", "r", "i", "n", "g", ")", "-", "(", "g", "r", "a", "y", "|", "s", "l", "a", "t", "e", "|", "z", "i", "n", "c", "|", "n", "e", "u", "t", "r", "a", "l", "|", "r", "e", "d", "|", "b", "l", "u", "e", "|", "g", "r", "e", "e", "n", "|", "y", "e", "l", "l", "o", "w", "|", "p", "u", "r", "p", "l", "e", "|", "p", "i", "n", "k", "|", "o", "r", "a", "n", "g", "e", "|", "i", "n", "d", "i", "g", "o", "|", "t", "e", "a", "l", "|", "c", "y", "a", "n", ")", "-", "\\", "\\", "d", "+">>,
      <<"^", "g", "r", "i", "d", "-", "(", "c", "o", "l", "s", "|", "r", "o", "w", "s", ")", "-", "\\", "\\", "d", "+", "$">>,
      <<"^", "(", "c", "o", "l", "|", "r", "o", "w", ")", "-", "s", "p", "a", "n", "-", "\\", "\\", "d", "+", "$">>,
      <<"^", "t", "e", "x", "t", "-", "(", "x", "s", "|", "s", "m", "|", "b", "a", "s", "e", "|", "l", "g", "|", "x", "l", "|", "2", "x", "l", "|", "3", "x", "l", "|", "4", "x", "l", "|", "5", "x", "l", ")", "$">>,
      <<"^", "f", "o", "n", "t", "-", "(", "t", "h", "i", "n", "|", "e", "x", "t", "r", "a", "l", "i", "g", "h", "t", "|", "l", "i", "g", "h", "t", "|", "n", "o", "r", "m", "a", "l", "|", "m", "e", "d", "i", "u", "m", "|", "s", "e", "m", "i", "b", "o", "l", "d", "|", "b", "o", "l", "d", "|", "e", "x", "t", "r", "a", "b", "o", "l", "d", "|", "b", "l", "a", "c", "k", ")", "$">>>>

\* The character an escape sequence \c of a template or string literal
\* stands for; the escapes b, v, 0, x and u do not occur in the text
EscapedChar(c) ==
    CASE c = "n" -> "\n" [] c = "t" -> "\t" [] c = "r" -> "\r" [] c = "f" -> "\f" [] OTHER -> c

\* Mutant: the text is taken as written
cookEscapes_asWritten(raw) == raw

\* The value of literal text: every escape sequence replaced by its
\* character.  Reading from the left, a character is the second of an escape
\* sequence when an odd number of backslashes stands right before it.
cookEscapes(raw) ==
    LET LastOther(i) == LET others == {0} \cup {j \in 1..(i - 1) : raw[j] # "\\"}
                        IN  CHOOSE j \in others : \A o \in others : o <= j
        RunBefore(i) == (i - 1) - LastOther(i)
        Escaped(i) == RunBefore(i) % 2 = 1
        Introduces(i) == raw[i] = "\\" /\ ~Escaped(i) /\ i < Len(raw)
        kept == SelectSeq([i \in 1..Len(raw) |-> i], LAMBDA i : ~Introduces(i))
    IN  [k \in 1..Len(kept) |-> IF Escaped(kept[k]) THEN EscapedChar(raw[kept[k]])
                                ELSE raw[kept[k]]]

\* JSON.stringify of one string of the class list (ui.ts 110)
RECURSIVE jsonEscape(_)
jsonEscape(s) ==
    IF s = <<>> THEN <<>>
    ELSE (IF Head(s) \in {"\"", "\\"} THEN <<"\\", Head(s)>> ELSE <<Head(s)>>)
         \o jsonEscape(Tail(s))

jsonStringify(s) == <<"\"">> \o jsonEscape(s) \o <<"\"">>

\* The string a double-quoted literal denotes when the page evaluates it
stringLiteralValue(literal) == cookEscapes(SubSeq(literal, 2, Len(literal) - 1))

\* utilityClassSet of the page (ui.ts 110)
utilityClassSet == {stringLiteralValue(jsonStringify(cls)) : cls \in UTILITY_CLASSES}

\* What the regular expression with the given source text tests.  The nine
\* texts of ui.ts 78-92 are the ones the matchers above translate; no token
\* is taken to match any other text.
RuleTest(source, cls) ==
    CASE source = UtilityRuleSources[1] -> HasUnsafeChar(cls)
      [] source = UtilityRuleSources[2] -> HasStatePrefix(cls)
      [] source = UtilityRuleSources[3] -> IsSpacingUtility(cls)
      [] source = UtilityRuleSources[4] -> IsSizingUtility(cls)
      [] source = UtilityRuleSources[5] -> IsColorUtility(cls)
      [] source = UtilityRuleSources[6] -> IsGridUtility(cls) /\ StartsWith(cls, <<"g">>)
      [] source = UtilityRuleSources[7] -> IsGridUtility(cls) /\ ~StartsWith(cls, <<"g">>)
      [] source = UtilityRuleSources[8] -> IsTextSizeUtility(cls)
      [] source = UtilityRuleSources[9] -> IsFontWeightUtility(cls)
      [] OTHER -> FALSE

\* The regular expressions the page's classifier holds
InjectedRuleSources ==
    [i \in 1..Len(InjectedRuleTemplateText) |-> cookEscapes(InjectedRuleTemplateText[i])]

\* isUtilityClass of the page (ui.ts 112-123)
injected_isUtilityClass(cls) ==
    \/ cls \in utilityClassSet
    \/ \E i \in 1..Len(InjectedRuleSources) : RuleTest(InjectedRuleSources[i], cls)

\* The injected getSemanticClasses(el) (ui.ts 125-129).  classTokens is the
\* element's class attribute, trimmed and split at white space (<<>> when the
\* attribute is empty or absent); tokens are kept in order, repeats included.
getSemanticClasses(classTokens) ==
    LET Semantic(cls) == ~injected_isUtilityClass(cls)
    IN  SelectSeq(classTokens, Semantic)

\* The injected getSemanticClassSelector(el) (ui.ts 131-134)
getSemanticClassSelector(classTokens) ==
    LET semantic == getSemanticClasses(classTokens)
    IN  IF Len(semantic) > 0 THEN <<".">> \o semantic[1] ELSE <<>>

(***************************************************************************)
(* The document.  A document is the sequence of its elements in document   *)
(* (pre-)order; element 1 is <html>.  An element is a record               *)
(*   tag      tagName.toLowerCase()                                        *)
(*   classes  the class attribute, trimmed and split at white space        *)
(*   parent   index of parentElement, 0 for <html>                         *)
(*   text     the element's own text; textContent is this text followed by *)
(*            the textContent of the child elements                        *)
(*   href, src, alt   <<>> when the attribute is absent, else <<value>>    *)
(*   id       the id, the empty string when absent                         *)
(*   role     the role attribute, the empty string when absent             *)
(***************************************************************************)
El(tag, classes, parent, text) ==
    [tag |-> tag, classes |-> classes, parent |-> parent, text |-> text,
     href |-> <<>>, src |-> <<>>, alt |-> <<>>, id |-> <<>>, role |-> <<>>]

\* el.children, as indexes in document order
Children(d, i) == SelectSeq([j \in 1..Len(d) |-> j], LAMBDA j : d[j].parent = i)

RECURSIVE IsAncestor(_, _, _)
\* a is a proper ancestor of i
IsAncestor(d, a, i) ==
    /\ i # 0
    /\ d[i].parent # 0
    /\ (d[i].parent = a \/ IsAncestor(d, a, d[i].parent))

\* el.querySelectorAll('*'), and the nodes a TreeWalker rooted at i yields:
\* the proper descendants of i in document order
Descendants(d, i) == SelectSeq([j \in 1..Len(d) |-> j], LAMBDA j : IsAncestor(d, i, j))

RECURSIVE textContent(_, _)
textContent(d, i) ==
    LET kids == Children(d, i)
        RECURSIVE Cat(_)
        Cat(k) == IF k > Len(kids) THEN <<>> ELSE textContent(d, kids[k]) \o Cat(k + 1)
    IN  d[i].text \o Cat(1)

\* getDepth (analyzer.ts 256-264 and 336-344): parentElement hops to the root
RECURSIVE getDepth(_, _)
getDepth(d, i) == IF d[i].parent = 0 THEN 0 ELSE 1 + getDepth(d, d[i].parent)

(***************************************************************************)
(* Selectors.  document.querySelectorAll is modelled for the compound      *)
(* selectors  tag?(.class)*, the universal selector and [role="value"];    *)
(* any other text is a syntax error, for which querySelectorAll throws.    *)
(***************************************************************************)
IdentChars == Range(LowerLetters) \cup Range(UpperLetters) \cup DigitSet \cup {"-", "_"}

\* Split s at each "." : the parts between the dots, in order
RECURSIVE SplitDots(_, _)
SplitDots(s, cur) ==
    IF s = <<>> THEN <<cur>>
    ELSE IF Head(s) = "." THEN <<cur>> \o SplitDots(Tail(s), <<>>)
    ELSE SplitDots(Tail(s), Append(cur, Head(s)))

\* A CSS identifier: non-empty, of identifier characters, not starting with a digit
IsIdent(s) == s # <<>> /\ AllIn(s, 1, Len(s), IdentChars) /\ s[1] \notin DigitSet

RolePrefix == <<"[", "r", "o", "l", "e", "=", "\"">>

RoleSuffix == <<"\"", "]">>

\* sel is [role="value"]
IsRoleSelector(sel) ==
    /\ Len(sel) > Len(RolePrefix) + Len(RoleSuffix)
    /\ StartsWith(sel, RolePrefix)
    /\ SubSeq(sel, Len(sel) - 1, Len(sel)) = RoleSuffix
    /\ IsIdent(SubSeq(sel, Len(RolePrefix) + 1, Len(sel) - 2))

IsCompoundSelector(sel) ==
    LET parts == SplitDots(sel, <<>>)
    IN  /\ sel # <<>>
        /\ parts[1] = <<>> \/ IsIdent(parts[1]) \/ parts[1] = <<"*">>
        /\ \A k \in 2..Len(parts) : IsIdent(parts[k])

SelectorValid(sel) == IsRoleSelector(sel) \/ IsCompoundSelector(sel)

\* Element i of d matches the valid selector sel
Matches(d, i, sel) ==
    IF IsRoleSelector(sel)
    THEN d[i].role = SubSeq(sel, Len(RolePrefix) + 1, Len(sel) - 2)
    ELSE LET parts == SplitDots(sel, <<>>)
         IN  /\ parts[1] \in {<<>>, <<"*">>, d[i].tag}
             /\ \A k \in 2..Len(parts) : parts[k] \in Range(d[i].classes)

\* document.querySelectorAll(sel) for a valid selector: indexes in document order
querySelectorAll(d, sel) == SelectSeq([j \in 1..Len(d) |-> j], LAMBDA j : Matches(d, j, sel))

(***************************************************************************)
(* findRepeatedPatterns (analyzer.ts 294-420)                              *)
(***************************************************************************)
CONTAINER_TAGS == <<<<"a", "r", "t", "i", "c", "l", "e">>, <<"d", "i", "v">>, <<"l", "i">>, <<"t", "r">>, <<"s", "e", "c", "t", "i", "o", "n">>, <<"a">>>>

NAV_SELECTORS ==
    <<<<"n", "a", "v">>, <<"h", "e", "a", "d", "e", "r">>, <<"f", "o", "o", "t", "e", "r">>, <<".", "n", "a", "v">>, <<".", "n", "a", "v", "b", "a", "r">>, <<".", "n", "a", "v", "i", "g", "a", "t", "i", "o", "n">>, <<".", "m", "e", "n", "u">>, <<".", "s", "i", "d", "e", "b", "a", "r">>,
      <<".", "f", "o", "o", "t", "e", "r">>, <<".", "h", "e", "a", "d", "e", "r">>, RolePrefix \o <<"n", "a", "v", "i", "g", "a", "t", "i", "o", "n">> \o RoleSuffix,
      RolePrefix \o <<"b", "a", "n", "n", "e", "r">> \o RoleSuffix, RolePrefix \o <<"c", "o", "n", "t", "e", "n", "t", "i", "n", "f", "o">> \o RoleSuffix>>

\* Mutant: the navigation selectors are never added
effectiveExcludeSelectors_explicitOnly(options) == options.excludeSelectors

\* The exclusion list handed to the page (analyzer.ts 298-301)
effectiveExcludeSelectors(options) ==
    IF options.ignoreNav THEN options.excludeSelectors \o NAV_SELECTORS
    ELSE options.excludeSelectors

\* Mutant: one try block around the whole loop, so the first selector that
\* does not parse ends it
excludedElements_stopAtInvalid(d, excludeSelectors) ==
    {i \in 1..Len(d) :
        \E k \in 1..Len(excludeSelectors) :
            /\ \A j \in 1..k : SelectorValid(excludeSelectors[j])
            /\ \E m \in 1..Len(d) :
                  /\ Matches(d, m, excludeSelectors[k])
                  /\ (m = i \/ IsAncestor(d, m, i))}

\* excludedElements (analyzer.ts 314-325): the matches of every selector that
\* parses, and their descendants; a selector that does not parse adds nothing
excludedElements(d, excludeSelectors) ==
    {i \in 1..Len(d) :
        \E k \in 1..Len(excludeSelectors) :
            /\ SelectorValid(excludeSelectors[k])
            /\ \E m \in 1..Len(d) :
                  /\ Matches(d, m, excludeSelectors[k])
                  /\ (m = i \/ IsAncestor(d, m, i))}

\* classIntersection (analyzer.ts 331-334)
classIntersection(classes1, classes2) ==
    SelectSeq(classes1, LAMBDA cls : cls \in Range(classes2))

\* The search for the best group (analyzer.ts 365-374): the index of bestGroup
\* (0 for null) after the groups from k on, given the best so far
RECURSIVE bestGroupFrom(_, _, _, _)
bestGroupFrom(groups, semanticClasses, k, best) ==
    IF k > Len(groups) THEN best
    ELSE LET intersection == classIntersection(semanticClasses, groups[k].classes)
             bestLen == IF best = 0 THEN 0
                        ELSE Len(classIntersection(semanticClasses, groups[best].classes))
         IN  IF Len(intersection) >= 1 /\ Len(intersection) > bestLen
             THEN bestGroupFrom(groups, semanticClasses, k + 1, k)
             ELSE bestGroupFrom(groups, semanticClasses, k + 1, best)

\* One element with semantic classes joins a group or opens one (analyzer.ts 365-381)
assignToGroup(groups, semanticClasses, el) ==
    LET best == bestGroupFrom(groups, semanticClasses, 1, 0)
    IN  IF best # 0
        THEN [groups EXCEPT ![best] =
                [classes |-> classIntersection(semanticClasses, groups[best].classes),
                 elements |-> Append(groups[best].elements, el)]]
        ELSE Append(groups, [classes |-> semanticClasses, elements |-> <<el>>])

\* The admission filters of one element (analyzer.ts 353-363)
admitted(d, el, options) ==
    /\ options.minChildren = <<>> \/ Len(Children(d, el)) >= options.minChildren[1]
    /\ options.minTextLength = <<>>
          \/ Len(Trim(textContent(d, el))) >= options.minTextLength[1]
    /\ Len(getSemanticClasses(d[el].classes)) # 0

\* elements.forEach (analyzer.ts 352-382) from the k-th element on
RECURSIVE groupElements(_, _, _, _, _)
groupElements(d, elements, options, k, groups) ==
    IF k > Len(elements) THEN groups
    ELSE IF admitted(d, elements[k], options)
         THEN groupElements(d, elements, options, k + 1,
                  assignToGroup(groups, getSemanticClasses(d[elements[k]].classes), elements[k]))
         ELSE groupElements(d, elements, options, k + 1, groups)

\* One sample of a pattern (analyzer.ts 388-393 and 266-271); the html preview
\* is only printed and is left out
patternSample(d, el) ==
    [text |-> Substring0(textContent(d, el), MAX_TEXT_PREVIEW),
     childCount |-> Len(Children(d, el)),
     textLength |-> Len(Trim(textContent(d, el)))]

\* Mutant: the selector keeps the first class of the signature only
groupPattern_firstClass(d, tag, group) ==
    LET shown == SubSeq(group.elements, 1, Min(MINER_SAMPLE_LIMIT, Len(group.elements)))
    IN  [selector |-> tag \o <<".">> \o group.classes[1],
         count |-> Len(group.elements),
         depth |-> getDepth(d, group.elements[1]),
         samples |-> [k \in 1..Len(shown) |-> patternSample(d, shown[k])]]

\* The pattern of one group (analyzer.ts 386-400)
groupPattern(d, tag, group) ==
    LET shown == SubSeq(group.elements, 1, Min(MINER_SAMPLE_LIMIT, Len(group.elements)))
    IN  [selector |-> tag \o <<".">> \o Join(group.classes, <<".">>),
         count |-> Len(group.elements),
         depth |-> getDepth(d, group.elements[1]),
         samples |-> [k \in 1..Len(shown) |-> patternSample(d, shown[k])]]

\* The elements of one tag that are not excluded (analyzer.ts 347)
tagElements(d, tag, options) ==
    LET excluded == excludedElements(d, effectiveExcludeSelectors(options))
    IN  SelectSeq(querySelectorAll(d, tag), LAMBDA i : i \notin excluded)

\* Mutant: a group is emitted whatever its size
groupsPatterns_anySize(d, tag, groups, options) ==
    LET kept == SelectSeq(groups, LAMBDA g : Len(g.classes) >= 1)
    IN  [k \in 1..Len(kept) |-> groupPattern(d, tag, kept[k])]

\* groups.forEach (analyzer.ts 384-402)
groupsPatterns(d, tag, groups, options) ==
    LET kept == SelectSeq(groups, LAMBDA g : Len(g.elements) >= options.minItems
                                             /\ Len(g.classes) >= 1)
    IN  [k \in 1..Len(kept) |-> groupPattern(d, tag, kept[k])]

\* The patterns of one container tag (analyzer.ts 346-403)
tagPatterns(d, tag, options) ==
    LET elements == tagElements(d, tag, options)
    IN  IF Len(elements) < options.minItems THEN <<>>
        ELSE groupsPatterns(d, tag, groupElements(d, elements, options, 1, <<>>), options)

findRepeatedPatterns(d, options) ==
    LET RECURSIVE FromTag(_)
        FromTag(t) == IF t > Len(CONTAINER_TAGS) THEN <<>>
                      ELSE tagPatterns(d, CONTAINER_TAGS[t], options) \o FromTag(t + 1)
    IN  FromTag(1)

\* getManualPattern (analyzer.ts 250-288) for a selector that parses:
\* <<>> for null, else <<pattern>>
getManualPattern(d, selector) ==
    LET elements == querySelectorAll(d, selector)
        shown == SubSeq(elements, 1, Min(MANUAL_SAMPLE_LIMIT, Len(elements)))
    IN  IF Len(elements) = 0 THEN <<>>
        ELSE <<[selector |-> selector,
                count |-> Len(elements),
                depth |-> getDepth(d, elements[1]),
                samples |-> [k \in 1..Len(shown) |-> patternSample(d, shown[k])]]>>

(***************************************************************************)
(* Scores are rationals times ScoreScale.  7560 = lcm of 3n for n in 1..10 *)
(* makes every term but the logarithm an exact integer for up to 10        *)
(* samples; the factor 1000 keeps the logarithm to 8 significant digits.   *)
(* A diversity is a rational times DivScale (2520 = lcm of 1..10).         *)
(***************************************************************************)
ScoreScale == 7560 * 1000

DivScale == 2520

\* round(Math.log(n) * 10 * ScoreScale) for n in 1..64
LogTimes10 ==
    <<0, 52401927, 83055089, 104803854, 121673506, 135457016, 147110807, 157205781,
     166110178, 174075433, 181280883, 187858943, 193910171, 199512734, 204728595, 209607707,
     214190929, 218512105, 222599587, 226477360, 230165896, 233682809, 237043363, 240260870,
     243347012, 246312098, 249165267, 251914661, 254567565, 257130522, 259609433, 262009634,
     264335972, 266592856, 268784313, 270914032, 272985394, 275001514, 276965260, 278879287,
     280746048, 282567823, 284346729, 286084736, 287783684, 289445290, 291071159, 292662796,
     294221615, 295748939, 297246018, 298714025, 300154069, 301567194, 302954389, 304316588,
     305654676, 306969492, 308261831, 309532449, 310782064, 312011360, 313220985, 314411561>>

(***************************************************************************)
(* calculateDiversity (analyzer.ts 531-554), result times DivScale         *)
(***************************************************************************)
\* The normalisation of one sample's text (analyzer.ts 540-545)
normalizeSampleText(text) ==
    ToLower(Substring0(Trim(CollapseSpaces(text)), DIVERSITY_TEXT_LIMIT))

calculateDiversity(samples) ==
    IF Len(samples) = 0 THEN 0
    ELSE IF Len(samples) = 1 THEN DivScale
    ELSE LET NonEmpty(t) == Len(t) > 0
             texts == SelectSeq([i \in 1..Len(samples) |-> normalizeSampleText(samples[i].text)],
                                NonEmpty)
         IN  IF Len(texts) = 0 THEN DivScale \div 2
             ELSE (Cardinality(Range(texts)) * DivScale) \div Len(texts)

(***************************************************************************)
(* scorePatterns and selectBestPattern (analyzer.ts 426-525)               *)
(***************************************************************************)
\* Mutant: a diversity of exactly 0.2 is gated too
DiversityGate_inclusive(diversityScore) == 5 * diversityScore <= DivScale

\* diversityScore < 0.2 (analyzer.ts 439)
DiversityGate(diversityScore) == 5 * diversityScore < DivScale

\* Mutant: the anchor penalty is given to every selector that begins with "a"
scoreOne_anchorByFirstLetter(p, options) ==
    LET diversityScore == calculateDiversity(p.samples)
    IN  IF DiversityGate(diversityScore)
        THEN [pattern |-> p, score |-> -100 * ScoreScale, diversityScore |-> diversityScore,
              breakdown |-> IF options.debug
                            THEN <<[countScore |-> 0, depthScore |-> 0, diversityScore |-> 0,
                                    childScore |-> 0, tableBonusScore |-> 0, anchorPenalty |-> 0,
                                    totalScore |-> -100 * ScoreScale]>>
                            ELSE <<>>]
        ELSE
        LET countScore == LogTimes10[p.count]
            depthScore == Max(0, 10 - Abs(p.depth - IDEAL_DOM_DEPTH) * 2) * ScoreScale
            diversityBonusScore == diversityScore * 15 * (ScoreScale \div DivScale)
            sumChildren == SumSeq([i \in 1..Len(p.samples) |-> p.samples[i].childCount])
            childScore == IF sumChildren >= 3 * Len(p.samples) THEN 20 * ScoreScale
                          ELSE ((20 * ScoreScale) \div (3 * Len(p.samples))) * sumChildren
            tableBonusScore ==
                IF options.preferTable
                THEN IF StartsWith(p.selector, <<"t", "r", ".">>)
                        \/ StartsWith(p.selector, <<"t", "r", " ">>)
                     THEN 25 * ScoreScale
                     ELSE IF Includes(p.selector, <<"t", "a", "b", "l", "e">>)
                             \/ Includes(p.selector, <<"t", "b", "o", "d", "y">>)
                          THEN 15 * ScoreScale
                          ELSE 0
                ELSE 0
            anchorPenalty == IF StartsWith(p.selector, <<"a">>) THEN -15 * ScoreScale ELSE 0
            totalScore == countScore + depthScore + diversityBonusScore + childScore
                          + tableBonusScore + anchorPenalty
        IN  [pattern |-> p, score |-> totalScore, diversityScore |-> diversityScore,
             breakdown |-> IF options.debug
                           THEN <<[countScore |-> countScore, depthScore |-> depthScore,
                                   diversityScore |-> diversityBonusScore,
                                   childScore |-> childScore,
                                   tableBonusScore |-> tableBonusScore,
                                   anchorPenalty |-> anchorPenalty, totalScore |-> totalScore]>>
                           ELSE <<>>]

\* The score of one pattern that passed the depth filter (analyzer.ts 433-502)
scoreOne(p, options) ==
    LET diversityScore == calculateDiversity(p.samples)
    IN  IF DiversityGate(diversityScore)
        THEN [pattern |-> p, score |-> -100 * ScoreScale, diversityScore |-> diversityScore,
              breakdown |-> IF options.debug
                            THEN <<[countScore |-> 0, depthScore |-> 0, diversityScore |-> 0,
                                    childScore |-> 0, tableBonusScore |-> 0, anchorPenalty |-> 0,
                                    totalScore |-> -100 * ScoreScale]>>
                            ELSE <<>>]
        ELSE
        LET countScore == LogTimes10[p.count]
            depthScore == Max(0, 10 - Abs(p.depth - IDEAL_DOM_DEPTH) * 2) * ScoreScale
            diversityBonusScore == diversityScore * 15 * (ScoreScale \div DivScale)
            sumChildren == SumSeq([i \in 1..Len(p.samples) |-> p.samples[i].childCount])
            \* Math.min(avgChildCount / 3, 1) * 20
            childScore == IF sumChildren >= 3 * Len(p.samples) THEN 20 * ScoreScale
                          ELSE ((20 * ScoreScale) \div (3 * Len(p.samples))) * sumChildren
            tableBonusScore ==
                IF options.preferTable
                THEN IF StartsWith(p.selector, <<"t", "r", ".">>)
                        \/ StartsWith(p.selector, <<"t", "r", " ">>)
                     THEN 25 * ScoreScale
                     ELSE IF Includes(p.selector, <<"t", "a", "b", "l", "e">>)
                             \/ Includes(p.selector, <<"t", "b", "o", "d", "y">>)
                          THEN 15 * ScoreScale
                          ELSE 0
                ELSE 0
            anchorPenalty == IF StartsWith(p.selector, <<"a", ".">>) THEN -15 * ScoreScale ELSE 0
            totalScore == countScore + depthScore + diversityBonusScore + childScore
                          + tableBonusScore + anchorPenalty
        IN  [pattern |-> p, score |-> totalScore, diversityScore |-> diversityScore,
             breakdown |-> IF options.debug
                           THEN <<[countScore |-> countScore, depthScore |-> depthScore,
                                   diversityScore |-> diversityBonusScore,
                                   childScore |-> childScore,
                                   tableBonusScore |-> tableBonusScore,
                                   anchorPenalty |-> anchorPenalty, totalScore |-> totalScore]>>
                           ELSE <<>>]

\* Mutant: an element is placed before the earlier ones of equal score
RECURSIVE InsertByScore_tiesReversed(_, _)
InsertByScore_tiesReversed(sorted, x) ==
    IF sorted = <<>> THEN <<x>>
    ELSE IF Head(sorted).score > x.score
         THEN <<Head(sorted)>> \o InsertByScore_tiesReversed(Tail(sorted), x)
         ELSE <<x>> \o sorted

RECURSIVE InsertByScore(_, _)
\* Array.prototype.sort((a, b) => b.score - a.score): stable, descending
InsertByScore(sorted, x) ==
    IF sorted = <<>> THEN <<x>>
    ELSE IF Head(sorted).score >= x.score THEN <<Head(sorted)>> \o InsertByScore(Tail(sorted), x)
    ELSE <<x>> \o sorted

RECURSIVE SortByScore(_)
SortByScore(scored) ==
    IF scored = <<>> THEN <<>>
    ELSE InsertByScore(SortByScore(SubSeq(scored, 1, Len(scored) - 1)), scored[Len(scored)])

\* Mutant: with debug set the scored list is returned as mapped, unsorted
scorePatterns_debugUnsorted(patterns, options) ==
    IF Len(patterns) = 0 THEN <<>>
    ELSE LET WithinDepth(p) == p.depth <= options.maxDepth
             filtered == SelectSeq(patterns, WithinDepth)
             scored == [i \in 1..Len(filtered) |-> scoreOne(filtered[i], options)]
         IN  IF Len(filtered) = 0 THEN <<>>
             ELSE IF options.debug THEN scored ELSE SortByScore(scored)

\* Mutant: the patterns are scored whatever their depth
scorePatterns_anyDepth(patterns, options) ==
    IF Len(patterns) = 0 THEN <<>>
    ELSE SortByScore([i \in 1..Len(patterns) |-> scoreOne(patterns[i], options)])

scorePatterns(patterns, options) ==
    IF Len(patterns) = 0 THEN <<>>
    ELSE LET WithinDepth(p) == p.depth <= options.maxDepth
             filtered == SelectSeq(patterns, WithinDepth)
         IN  IF Len(filtered) = 0 THEN <<>>
             ELSE SortByScore([i \in 1..Len(filtered) |-> scoreOne(filtered[i], options)])

\* The result is <<>> for null and <<p>> for the pattern p
selectBestPattern(patterns, options) ==
    LET scored == scorePatterns(patterns, options)
    IN  IF Len(scored) = 0 THEN <<>> ELSE <<scored[1].pattern>>

(***************************************************************************)
(* inferFields (analyzer.ts 560-716).  The field map is the sequence of    *)
(* its entries in insertion order, which is the order Map.forEach visits.  *)
(* A confidence is in hundredths (0..100).                                 *)
(***************************************************************************)
\* replace(/[^a-z0-9]+/g, '_')
RECURSIVE CollapseNonAlnum(_)
CollapseNonAlnum(s) ==
    LET Alnum == Range(LowerLetters) \cup DigitSet
        RECURSIVE DropOther(_)
        DropOther(t) == IF t # <<>> /\ Head(t) \notin Alnum THEN DropOther(Tail(t)) ELSE t
    IN  IF s = <<>> THEN <<>>
        ELSE IF Head(s) \in Alnum THEN <<Head(s)>> \o CollapseNonAlnum(Tail(s))
        ELSE <<"_">> \o CollapseNonAlnum(DropOther(s))

\* replace(/^_+|_+$/g, '')
RECURSIVE StripUnderscores(_)
StripUnderscores(s) ==
    IF s # <<>> /\ Head(s) = "_" THEN StripUnderscores(Tail(s))
    ELSE IF s # <<>> /\ s[Len(s)] = "_" THEN StripUnderscores(SubSeq(s, 1, Len(s) - 1))
    ELSE s

\* sanitizeName (analyzer.ts 632-638)
sanitizeName(text) ==
    StripUnderscores(CollapseNonAlnum(Substring0(ToLower(text), MAX_FIELD_NAME_LENGTH)))

\* getElementPath (analyzer.ts 597-607)
RECURSIVE pathParts(_, _, _)
pathParts(d, el, root) ==
    IF el = 0 \/ el = root THEN <<>>
    ELSE Append(pathParts(d, d[el].parent, root),
                d[el].tag \o getSemanticClassSelector(d[el].classes))

getElementPath(d, el, root) == Join(pathParts(d, el, root), <<">">>)

\* getRelativeSelector (analyzer.ts 609-614)
getRelativeSelector(d, el, containerSel) ==
    Trim(containerSel \o <<" ">> \o d[el].tag
         \o (IF d[el].id # <<>> THEN <<"#">> \o d[el].id ELSE <<>>)
         \o getSemanticClassSelector(d[el].classes))

\* Mutant: every element opens an entry of its own
addToMap_neverMerges(fieldMap, d, key, name, type, el, containerSel, sample) ==
    Append(fieldMap, [key |-> key, name |-> name, type |-> type,
                      selector |-> getRelativeSelector(d, el, containerSel),
                      samples |-> <<sample>>])

\* addToMap (analyzer.ts 585-595)
addToMap(fieldMap, d, key, name, type, el, containerSel, sample) ==
    IF \E k \in 1..Len(fieldMap) : fieldMap[k].key = key
    THEN [k \in 1..Len(fieldMap) |->
            IF fieldMap[k].key = key
            THEN [fieldMap[k] EXCEPT !.samples = Append(@, sample)]
            ELSE fieldMap[k]]
    ELSE Append(fieldMap, [key |-> key, name |-> name, type |-> type,
                           selector |-> getRelativeSelector(d, el, containerSel),
                           samples |-> <<sample>>])

\* One element of the walk (analyzer.ts 650-682)
visitElement(fieldMap, d, el, container, containerSel, includeEmpty) ==
    LET tagName == d[el].tag
        text == Trim(textContent(d, el))
        path == getElementPath(d, el, container)
        afterLink ==
            IF tagName = <<"a">> /\ d[el].href # <<>> /\ (text # <<>> \/ includeEmpty)
            THEN addToMap(fieldMap, d, <<"l", "i", "n", "k", "_">> \o path,
                          IF text # <<>> THEN sanitizeName(text) ELSE <<"l", "i", "n", "k">>,
                          "href", el, containerSel, d[el].href[1])
            ELSE fieldMap
        afterImage ==
            IF tagName = <<"i", "m", "g">> /\ d[el].src # <<>>
            THEN addToMap(afterLink, d, <<"i", "m", "g", "_">> \o path,
                          sanitizeName(IF d[el].alt = <<>> \/ d[el].alt[1] = <<>>
                                       THEN <<"i", "m", "a", "g", "e">> ELSE d[el].alt[1]),
                          "url", el, containerSel, d[el].src[1])
            ELSE afterLink
        afterText ==
            IF Len(Children(d, el)) = 0 /\ (text # <<>> \/ includeEmpty)
            THEN LET type == inferType(text)
                 IN  addToMap(afterImage, d, TypeName(type) \o <<"_">> \o path,
                              IF text # <<>> THEN sanitizeName(text) ELSE tagName,
                              type, el, containerSel, text)
            ELSE afterImage
    IN  IF tagName = <<"s", "c", "r", "i", "p", "t">> \/ tagName = <<"s", "t", "y", "l", "e">> THEN fieldMap ELSE afterText

\* The walk of one container (analyzer.ts 641-684), from the k-th node on
RECURSIVE walkNodes(_, _, _, _, _, _, _)
walkNodes(fieldMap, d, nodes, k, container, containerSel, includeEmpty) ==
    IF k > Len(nodes) THEN fieldMap
    ELSE walkNodes(visitElement(fieldMap, d, nodes[k], container, containerSel, includeEmpty),
                   d, nodes, k + 1, container, containerSel, includeEmpty)

RECURSIVE walkContainers(_, _, _, _, _, _)
walkContainers(fieldMap, d, containers, k, containerSel, includeEmpty) ==
    IF k > Len(containers) THEN fieldMap
    ELSE walkContainers(
            walkNodes(fieldMap, d, Descendants(d, containers[k]), 1, containers[k],
                      containerSel, includeEmpty),
            d, containers, k + 1, containerSel, includeEmpty)

\* The raw fields of the first SAMPLE_COUNT containers (analyzer.ts 575-684)
rawFields(d, selector, options) ==
    LET containers == querySelectorAll(d, selector)
    IN  walkContainers(<<>>, d, SubSeq(containers, 1, Min(SAMPLE_COUNT, Len(containers))), 1,
                       selector, options.includeEmpty)

\* Math.round(confidence * 100) of one entry (analyzer.ts 689-697), exact
\* rational arithmetic
fieldConfidence(samples) == RoundDiv(100 * Cardinality(Range(samples)), Len(samples))

\* Mutant: the emitted two-decimal value is compared with the threshold
meetsThreshold_rounded(samples, confidenceThreshold) ==
    10 * fieldConfidence(samples) >= confidenceThreshold

\* confidence >= confidenceThreshold (analyzer.ts 692) on the unrounded
\* ratio; the threshold, any number parseConfidence admits (index.ts 32-39),
\* is in thousandths
meetsThreshold(samples, confidenceThreshold) ==
    1000 * Cardinality(Range(samples)) >= confidenceThreshold * Len(samples)

\* The conversion to fields (analyzer.ts 687-701)
fieldsOf(fieldMap, confidenceThreshold) ==
    LET kept == SelectSeq(fieldMap, LAMBDA data : meetsThreshold(data.samples, confidenceThreshold))
    IN  [k \in 1..Len(kept) |->
            [name |-> kept[k].name, selector |-> kept[k].selector, type |-> kept[k].type,
             confidence |-> fieldConfidence(kept[k].samples), sample |-> kept[k].samples[1]]]

\* inferFields for a selector that parses
inferFields(d, selector, options) ==
    fieldsOf(rawFields(d, selector, options), options.confidenceThreshold)

(***************************************************************************)
(* calculateConfidence (analyzer.ts 722-746), in hundredths.  The score is *)
(* the exact rational 0.3 * countRatio + 0.4 * avg + 0.3 * fieldScore,     *)
(* written num / den and rounded half up as Math.round does.               *)
(***************************************************************************)
\* Mutant: the count ratio is not capped at 1
countRatioNumerator_uncapped(count, minItems) == count

\* Math.min(count / minItems / 2, 1) is countRatioNumerator / (2 * minItems)
countRatioNumerator(count, minItems) == Min(count, 2 * minItems)

calculateConfidence(pattern, fields, options) ==
    IF Len(fields) = 0 THEN 0
    ELSE LET n == Len(fields)
             m == options.minItems
             sumConfidence == SumSeq([k \in 1..n |-> fields[k].confidence])
             num == 75 * countRatioNumerator(pattern.count, m) * n
                    + 2 * sumConfidence * m
                    + 30 * Min(n, 5) * m * n
         IN  RoundDiv(num, 5 * m * n)

(***************************************************************************)
(* deduplicateFields (analyzer.ts 752-764)                                 *)
(***************************************************************************)
\* Mutant: the suffix is the number of occurrences so far, this one included
RECURSIVE dedupFrom_countsThisOne(_, _, _)
dedupFrom_countsThisOne(fields, seen, out) ==
    IF fields = <<>> THEN out
    ELSE LET field == Head(fields)
             count == IF field.name \in DOMAIN seen THEN seen[field.name] ELSE 0
             seen2 == [n \in DOMAIN seen \cup {field.name} |->
                         IF n = field.name THEN count + 1 ELSE seen[n]]
             renamed == IF count > 0
                        THEN [field EXCEPT !.name = field.name \o <<"_">> \o NatToString(count + 1)]
                        ELSE field
         IN  dedupFrom_countsThisOne(Tail(fields), seen2, Append(out, renamed))

\* The fold of fields.map: seen is the Map<string, number>, out the result
RECURSIVE dedupFrom(_, _, _)
dedupFrom(fields, seen, out) ==
    IF fields = <<>> THEN out
    ELSE LET field == Head(fields)
             count == IF field.name \in DOMAIN seen THEN seen[field.name] ELSE 0
             seen2 == [n \in DOMAIN seen \cup {field.name} |->
                         IF n = field.name THEN count + 1 ELSE seen[n]]
             renamed == IF count > 0
                        THEN [field EXCEPT !.name = field.name \o <<"_">> \o NatToString(count)]
                        ELSE field
         IN  dedupFrom(Tail(fields), seen2, Append(out, renamed))

\* Mutant: the map of seen names outlives the call and still holds the names
\* of the schemas returned before
initialSeen_shared ==
    LET names == UNION {{f.name : f \in Range(an_results[i].schema.fields)} :
                           i \in 1..Len(an_results)}
    IN  [n \in names |-> 1]

\* const seen = new Map<string, number>() (analyzer.ts 753)
initialSeen == <<>>

deduplicateFields(fields) == dedupFrom(fields, initialSeen, <<>>)

(***************************************************************************)
(* AnalyzerOptions (analyzer.ts 10-48) with the defaults of the command    *)
(* line (index.ts 281-360, 449-468).  An optional number is <<>> when      *)
(* undefined and <<n>> when set; an absent containerSelector or            *)
(* waitForSelector is the empty string (both are falsy where the code      *)
(* tests them); confidenceThreshold is in thousandths; listPatterns is 0   *)
(* when undefined.                                                         *)
(***************************************************************************)
DefaultOptions ==
    [minItems |-> 3, maxDepth |-> 10, fieldTypes |-> <<>>, includeEmpty |-> FALSE,
     confidenceThreshold |-> 700, containerSelector |-> <<>>, excludeSelectors |-> <<>>,
     waitForSelector |-> <<>>, minChildren |-> <<>>, minTextLength |-> <<>>,
     preferTable |-> FALSE, ignoreNav |-> FALSE, debug |-> FALSE, listPatterns |-> 0]

(***************************************************************************)
(* Each specification below drives one part of the program and leaves the  *)
(* variables of the other parts at rest.                                   *)
(***************************************************************************)
IdleDedup == dd_in = <<>> /\ dd_out = <<>> /\ dd_pc = "idle"

IdleType == ty_text = <<>> /\ ty_out = "none" /\ ty_pc = "idle"

IdleScore ==
    /\ sc_patterns = <<>>
    /\ sc_opts = DefaultOptions
    /\ sc_scored = <<>>
    /\ sc_best = <<>>
    /\ sc_pc = "idle"

IdleConf ==
    /\ cf_map = <<>>
    /\ cf_count = 0
    /\ cf_opts = DefaultOptions
    /\ cf_fields = <<>>
    /\ cf_conf = 0
    /\ cf_pc = "idle"

IdleMine ==
    /\ mn_doc = <<>>
    /\ mn_opts = DefaultOptions
    /\ mn_tag = 0
    /\ mn_k = 0
    /\ mn_groups = <<>>
    /\ mn_results = <<>>
    /\ mn_pc = "idle"

NoOutcome ==
    [kind |-> "none", code |-> "none", minItems |-> 0, cause |-> "none",
     schema |-> [url |-> "", timestamp |-> 0, containerSelector |-> <<>>, fields |-> <<>>,
                 itemCount |-> 0, confidence |-> 0]]

IdleAnalyze ==
    /\ an_url = ""
    /\ an_doc = <<>>
    /\ an_opts = DefaultOptions
    /\ an_pc = "idle"
    /\ an_browser = "none"
    /\ an_patterns = <<>>
    /\ an_scored = <<>>
    /\ an_best = <<>>
    /\ an_fields = <<>>
    /\ an_calls = <<>>
    /\ an_outcome = NoOutcome
    /\ an_now = 0
    /\ an_results = <<>>

(***************************************************************************)
(* Specification SpecDedup: deduplicateFields applied to a bounded set of  *)
(* field lists.  Names are ones sanitizeName can produce.                  *)
(***************************************************************************)
MaxFields == 3

NamePool == {<<"x">>, <<"y">>, <<"x", "_", "1">>, <<"x", "_", "2">>}

FieldPool ==
    {[name |-> n, selector |-> <<"l", "i", ".", "i", "t", "e", "m", " ", "a">>, type |-> t, confidence |-> 100, sample |-> <<"s">>] :
        n \in NamePool, t \in {"text", "href"}}

InitDedup ==
    /\ dd_in \in SeqsUpTo(FieldPool, MaxFields)
    /\ dd_out = <<>>
    /\ dd_pc = "call"
    /\ IdleType /\ IdleScore /\ IdleConf /\ IdleMine /\ IdleAnalyze

DedupCall ==
    /\ dd_pc = "call"
    /\ dd_out' = deduplicateFields(dd_in)
    /\ dd_pc' = "done"
    /\ UNCHANGED <<dd_in, vars_ty, vars_sc, vars_cf, vars_mn, vars_an>>

NextDedup == DedupCall

SpecDedup == InitDedup /\ [][NextDedup]_vars

(***************************************************************************)
(* Specification SpecType: inferType applied to a bounded set of texts.    *)
(***************************************************************************)
MaxTextLen == 4

TypeAlphabet == {"$", "£", "1", ".", ",", "-", " ", "J", "a", "n"}

TextPound5177 == <<"£", "5", "1", ".", "7", "7">>

TextIsoDate == <<"2", "0", "2", "4", "-", "0", "1", "-", "1", "5">>

TextFortyTwo == <<"4", "2">>

TextHelloWorld == <<"H", "e", "l", "l", "o", " ", "w", "o", "r", "l", "d">>

ScenarioTexts == {TextPound5177, TextIsoDate, TextFortyTwo, TextHelloWorld}

TypeInputs == ScenarioTexts \cup SeqsUpTo(TypeAlphabet, MaxTextLen)

InitType ==
    /\ ty_text \in TypeInputs
    /\ ty_out = "none"
    /\ ty_pc = "call"
    /\ IdleDedup /\ IdleScore /\ IdleConf /\ IdleMine /\ IdleAnalyze

TypeCall ==
    /\ ty_pc = "call"
    /\ ty_out' = inferType(ty_text)
    /\ ty_pc' = "done"
    /\ UNCHANGED <<ty_text, vars_dd, vars_sc, vars_cf, vars_mn, vars_an>>

NextType == TypeCall

SpecType == InitType /\ [][NextType]_vars

(***************************************************************************)
(* Specification SpecScore: selectBestPattern applied to bounded lists of  *)
(* candidate patterns, shaped as the miner shapes them (at most 10         *)
(* samples, selector = tag.class).                                         *)
(***************************************************************************)
MaxPatterns == 2

SelANavLink == <<"a", ".", "n", "a", "v", "-", "l", "i", "n", "k">>

SelDivCard == <<"d", "i", "v", ".", "c", "a", "r", "d">>

SelTrAthing == <<"t", "r", ".", "a", "t", "h", "i", "n", "g">>

TextHome == <<"H", "o", "m", "e">>

\* The i-th of a family of pairwise different texts
TextCard(i) == <<"C", "a", "r", "d", " ">> \o NatToString(i)

\* "Home" in capitals, with white space before, inside and after
TextHomeSpaced == <<" ", "H", "O", " ", " ", "M", "E", " ", " ">>

\* The text of the i-th sample: the same everywhere, different everywhere,
\* none, white space only, the same in the first six samples and none after,
\* two spellings that normalise to one text, two texts in turn
SampleText(kind, i) ==
    CASE kind = "same" -> TextHome
      [] kind = "distinct" -> TextCard(i)
      [] kind = "empty" -> <<>>
      [] kind = "blank" -> <<" ", " ">>
      [] kind = "tailEmpty" -> IF i <= 6 THEN TextHome ELSE <<>>
      [] kind = "cased" -> IF i % 2 = 1 THEN <<"H", "o", " ", "m", "e">> ELSE TextHomeSpaced
      [] kind = "twoValues" -> IF i % 2 = 1 THEN TextHome ELSE TextCard(1)

MkSamples(kind, n, childCount) ==
    [i \in 1..n |-> [text |-> SampleText(kind, i), childCount |-> childCount,
                     textLength |-> Len(SampleText(kind, i))]]

MkPattern(selector, count, depth, kind, childCount) ==
    [selector |-> selector, count |-> count, depth |-> depth,
     samples |-> MkSamples(kind, Min(count, MINER_SAMPLE_LIMIT), childCount)]

\* Child elements per item: links have none, cards and rows a few
PoolChildCount(selector) ==
    IF selector = SelANavLink THEN 0 ELSE IF selector = SelDivCard THEN 3 ELSE 2

PatternPool ==
    {MkPattern(sel, ck[1], d, ck[2], PoolChildCount(sel)) :
        sel \in {SelANavLink, SelDivCard, SelTrAthing},
        ck \in {<<50, "same">>, <<5, "distinct">>, <<4, "same">>, <<3, "empty">>},
        d \in {3, 12}}

SelLiItem == <<"l", "i", ".", "i", "t", "e", "m">>

SampleKinds == {"same", "distinct", "empty", "blank", "tailEmpty", "cased", "twoValues"}

\* Patterns scored alone: one selector with 1 to 10 items of every kind of
\* sample text, and one pattern per tag of CONTAINER_TAGS and per selector
\* text the table bonus and the anchor penalty look at
SinglePatternPool ==
    {MkPattern(SelLiItem, n, 3, kind, 2) : n \in 1..MINER_SAMPLE_LIMIT, kind \in SampleKinds}
    \cup {MkPattern(sel, 5, 3, "distinct", 2) :
            sel \in {SelANavLink, SelDivCard, SelTrAthing, SelLiItem,
                     <<"a", "r", "t", "i", "c", "l", "e", ".", "p", "o", "s", "t">>,
                     <<"s", "e", "c", "t", "i", "o", "n", ".", "t", "b", "o", "d", "y", "-", "w", "r", "a", "p">>,
                     <<"d", "i", "v", ".", "t", "a", "b", "l", "e", "-", "r", "o", "w">>,
                     <<"t", "r", ".", "t", "a", "b", "l", "e", "-", "r", "o", "w">>,
                     <<"a", ".", "t", "a", "b", "l", "e", "-", "l", "i", "n", "k">>}}

InitScore ==
    /\ \/ sc_patterns \in SeqsUpTo(PatternPool, MaxPatterns)
       \/ sc_patterns \in {<<p>> : p \in SinglePatternPool}
    /\ sc_opts \in {[DefaultOptions EXCEPT !.preferTable = t, !.debug = g] : t, g \in BOOLEAN}
                   \cup {[DefaultOptions EXCEPT !.listPatterns = 5, !.debug = g] : g \in BOOLEAN}
    /\ sc_scored = <<>>
    /\ sc_best = <<>>
    /\ sc_pc = "call"
    /\ IdleDedup /\ IdleType /\ IdleConf /\ IdleMine /\ IdleAnalyze

\* The list of scored patterns (analyzer.ts 179, and 510 inside
\* selectBestPattern) and the selection (analyzer.ts 183); printPatternList
\* (226-244) only writes to the console
SelectCall ==
    /\ sc_pc = "call"
    /\ sc_scored' = scorePatterns(sc_patterns, sc_opts)
    /\ sc_best' = selectBestPattern(sc_patterns, sc_opts)
    /\ sc_pc' = "done"
    /\ UNCHANGED <<sc_patterns, sc_opts, vars_dd, vars_ty, vars_cf, vars_mn, vars_an>>

NextScore == SelectCall

SpecScore == InitScore /\ [][NextScore]_vars

(***************************************************************************)
(* Specification SpecConf: the confidence arithmetic (the conversion of    *)
(* the field map to fields, then calculateConfidence) on bounded field     *)
(* maps, pattern counts and options.                                       *)
(***************************************************************************)
MaxConfFields == 6

MaxConfCount == 5

\* Sample lists with 1 of 1, 1 of 3 and 2 of 3 distinct values
ConfSamplePool == {<<<<"a">>>>, <<<<"a">>, <<"a">>, <<"a">>>>, <<<<"a">>, <<"b">>, <<"a">>>>}

ConfEntryPool ==
    {[key |-> <<"t", "e", "x", "t", "_", "s", "p", "a", "n">>, name |-> <<"a">>, type |-> "text", selector |-> <<"l", "i", ".", "i", "t", "e", "m", " ", "s", "p", "a", "n">>,
      samples |-> smp] : smp \in ConfSamplePool}

InitConf ==
    /\ cf_map \in SeqsUpTo(ConfEntryPool, MaxConfFields)
    /\ cf_count \in 1..MaxConfCount
    /\ cf_opts \in {[DefaultOptions EXCEPT !.minItems = m, !.confidenceThreshold = t] :
                        m \in 1..3, t \in {0, 333, 700}}
    /\ cf_fields = <<>>
    /\ cf_conf = 0
    /\ cf_pc = "fields"
    /\ IdleDedup /\ IdleType /\ IdleScore /\ IdleMine /\ IdleAnalyze

\* analyzer.ts 687-701
ConvertFields ==
    /\ cf_pc = "fields"
    /\ cf_fields' = fieldsOf(cf_map, cf_opts.confidenceThreshold)
    /\ cf_pc' = "confidence"
    /\ UNCHANGED <<cf_map, cf_count, cf_opts, cf_conf, vars_dd, vars_ty, vars_sc, vars_mn, vars_an>>

\* analyzer.ts 202
CalcConfidence ==
    /\ cf_pc = "confidence"
    /\ cf_conf' = calculateConfidence([count |-> cf_count], cf_fields, cf_opts)
    /\ cf_pc' = "done"
    /\ UNCHANGED <<cf_map, cf_count, cf_opts, cf_fields, vars_dd, vars_ty, vars_sc, vars_mn, vars_an>>

NextConf == ConvertFields \/ CalcConfidence

SpecConf == InitConf /\ [][NextConf]_vars

(***************************************************************************)
(* Documents                                                               *)
(***************************************************************************)
ClsItem == <<"i", "t", "e", "m">>

ClsExtra == <<"e", "x", "t", "r", "a">>

ClsThird == <<"t", "h", "i", "r", "d">>

TagLi == <<"l", "i">>

\* <html><body><ul> and one <li> per class list, the k-th with the text "Card k"
MineDoc(classLists) ==
    <<El(<<"h", "t", "m", "l">>, <<>>, 0, <<>>), El(<<"b", "o", "d", "y">>, <<>>, 1, <<>>), El(<<"u", "l">>, <<>>, 2, <<>>)>>
    \o [k \in 1..Len(classLists) |-> El(<<"l", "i">>, classLists[k], 3, TextCard(k))]

\* The <li> elements of items under the element at index parent, appended to
\* acc in document order; an item with a child has a <span>more</span> in it
RECURSIVE ItemsUnder(_, _, _, _)
ItemsUnder(items, k, parent, acc) ==
    IF k > Len(items) THEN acc
    ELSE LET withLi == Append(acc, El(TagLi, items[k].classes, parent, TextCard(k)))
         IN  ItemsUnder(items, k + 1, parent,
                        IF items[k].child
                        THEN Append(withLi, El(<<"s", "p", "a", "n">>, <<>>, Len(withLi), <<"m", "o", "r", "e">>))
                        ELSE withLi)

\* <html><body><ul>...</ul><nav>...</nav>: the items that are not inNav under
\* <ul>, the others under <nav>
FilterDoc(items) ==
    LET head == <<El(<<"h", "t", "m", "l">>, <<>>, 0, <<>>), El(<<"b", "o", "d", "y">>, <<>>, 1, <<>>), El(<<"u", "l">>, <<>>, 2, <<>>)>>
        listed == ItemsUnder(SelectSeq(items, LAMBDA it : ~it.inNav), 1, 3, head)
        withNav == Append(listed, El(<<"n", "a", "v">>, <<>>, 2, <<>>))
    IN  ItemsUnder(SelectSeq(items, LAMBDA it : it.inNav), 1, Len(withNav), withNav)

\* Scenario A: five <li class="item extra">, each with its own text and an
\* <a href> child.  hrefKind: the hrefs are "distinct" or the "same";
\* anchorKind: the anchors' texts are "distinct", the "same" or "empty".
DocScenarioA(hrefKind, anchorKind) ==
    <<El(<<"h", "t", "m", "l">>, <<>>, 0, <<>>), El(<<"b", "o", "d", "y">>, <<>>, 1, <<>>), El(<<"u", "l">>, <<>>, 2, <<>>)>>
    \o [k \in 1..10 |->
          LET i == (k + 1) \div 2
          IN  IF k % 2 = 1
              THEN El(<<"l", "i">>, <<ClsItem, ClsExtra>>, 3, TextCard(i))
              ELSE [El(<<"a">>, <<>>, k + 2,
                       CASE anchorKind = "distinct" -> <<"R", "e", "a", "d", " ">> \o NatToString(i)
                         [] anchorKind = "same" -> <<"m", "o", "r", "e">>
                         [] anchorKind = "empty" -> <<>>)
                    EXCEPT !.href = <<IF hrefKind = "distinct" THEN <<"/", "p", "/">> \o NatToString(i)
                                      ELSE <<"#">>>>]]

\* Scenario B: four <a class="nav-link">Home</a> and four <div class="card">
\* with different texts, all children of <body>; the links come first when
\* linksFirst
DocScenarioB(linksFirst) ==
    LET link == El(<<"a">>, <<<<"n", "a", "v", "-", "l", "i", "n", "k">>>>, 2, TextHome)
        links == [k \in 1..4 |-> [link EXCEPT !.href = <<<<"/">>>>]]
        cards == [k \in 1..4 |-> El(<<"d", "i", "v">>, <<<<"c", "a", "r", "d">>>>, 2, TextCard(k))]
    IN  <<El(<<"h", "t", "m", "l">>, <<>>, 0, <<>>), El(<<"b", "o", "d", "y">>, <<>>, 1, <<>>)>>
        \o (IF linksFirst THEN links \o cards ELSE cards \o links)

\* Three <li class="item">, each with a link whose text is made of asterisks
\* and an image whose alt text is made of dashes
DocSymbols ==
    <<El(<<"h", "t", "m", "l">>, <<>>, 0, <<>>), El(<<"b", "o", "d", "y">>, <<>>, 1, <<>>), El(<<"u", "l">>, <<>>, 2, <<>>)>>
    \o [k \in 1..9 |->
          LET i == (k + 2) \div 3
          IN  CASE k % 3 = 1 -> El(<<"l", "i">>, <<ClsItem>>, 3, <<>>)
                [] k % 3 = 2 -> [El(<<"a">>, <<>>, k + 2, [j \in 1..i |-> "*"])
                                 EXCEPT !.href = <<<<"/", "p", "/">> \o NatToString(i)>>]
                [] OTHER -> [El(<<"i", "m", "g">>, <<>>, k + 1, <<>>)
                             EXCEPT !.src = <<<<"/", "i", "/">> \o NatToString(i)>>, !.alt = <<<<"-", "-">>>>]]

\* A navigation bar holding one <li class="item"> with a link, followed by a
\* list of three <li class="item">, each with a link
DocNavFirst ==
    <<El(<<"h", "t", "m", "l">>, <<>>, 0, <<>>), El(<<"b", "o", "d", "y">>, <<>>, 1, <<>>),
      El(<<"n", "a", "v">>, <<>>, 2, <<>>), El(<<"l", "i">>, <<ClsItem>>, 3, <<>>),
      [El(<<"a">>, <<>>, 4, <<"H", "o", "m", "e">>) EXCEPT !.href = <<<<"/">>>>],
      El(<<"u", "l">>, <<>>, 2, <<>>)>>
    \o [k \in 1..6 |->
          LET i == (k + 1) \div 2
          IN  IF k % 2 = 1 THEN El(<<"l", "i">>, <<ClsItem>>, 6, <<>>)
              ELSE [El(<<"a">>, <<>>, k + 5, <<"R", "e", "a", "d">> \o NatToString(i))
                    EXCEPT !.href = <<<<"/", "p", "/">> \o NatToString(i)>>]]

\* Three <li class="row item md:flex px-4">, each with a link of class
\* "text-sm title w-[10px]" and a span of class "font-bold p- col-span-2
\* text-md grid-cols-3 text-gray-100 h-full": utility classes of every rule
\* of ui.ts among classes that are none
DocUtility ==
    <<El(<<"h", "t", "m", "l">>, <<>>, 0, <<>>), El(<<"b", "o", "d", "y">>, <<>>, 1, <<>>), El(<<"u", "l">>, <<>>, 2, <<>>)>>
    \o [k \in 1..9 |->
          LET i == (k + 2) \div 3
          IN  CASE k % 3 = 1 ->
                     El(<<"l", "i">>, <<<<"r", "o", "w">>, ClsItem, <<"m", "d", ":", "f", "l", "e", "x">>, <<"p", "x", "-", "4">>>>, 3, <<>>)
                [] k % 3 = 2 ->
                     [El(<<"a">>, <<<<"t", "e", "x", "t", "-", "s", "m">>, <<"t", "i", "t", "l", "e">>, <<"w", "-", "[", "1", "0", "p", "x", "]">>>>,
                         k + 2, <<"R", "e", "a", "d">> \o NatToString(i))
                      EXCEPT !.href = <<<<"/", "p", "/">> \o NatToString(i)>>]
                [] OTHER ->
                     El(<<"s", "p", "a", "n">>,
                        <<<<"f", "o", "n", "t", "-", "b", "o", "l", "d">>, <<"p", "-">>, <<"c", "o", "l", "-", "s", "p", "a", "n", "-", "2">>,
                          <<"t", "e", "x", "t", "-", "m", "d">>, <<"g", "r", "i", "d", "-", "c", "o", "l", "s", "-", "3">>,
                          <<"t", "e", "x", "t", "-", "g", "r", "a", "y", "-", "1", "0", "0">>, <<"h", "-", "f", "u", "l", "l">>>>,
                        k + 1, TextCard(i))]

SelLiRow == <<"l", "i", ".", "r", "o", "w">>

\* A page without repeated classed elements
DocPlain ==
    <<El(<<"h", "t", "m", "l">>, <<>>, 0, <<>>), El(<<"b", "o", "d", "y">>, <<>>, 1, <<>>), El(<<"p">>, <<>>, 2, <<"H", "e", "l", "l", "o">>)>>

(***************************************************************************)
(* Specification SpecMine: the miner's loops (analyzer.ts 346-403) one     *)
(* iteration at a time, over lists of <li> elements.                       *)
(***************************************************************************)
MaxMineElements == 3

ClassAttrPool ==
    {<<ClsItem>>, <<ClsItem, ClsItem>>, <<ClsItem, ClsExtra>>, <<ClsExtra>>,
     <<<<"f", "l", "e", "x">>, ClsItem>>, <<>>, <<ClsExtra, ClsThird>>,
     <<ClsItem, ClsItem, ClsExtra, ClsThird>>}

\* A plain item, an item of another class with a child, an item inside <nav>
FilterItemPool ==
    {[classes |-> <<ClsItem>>, inNav |-> FALSE, child |-> FALSE],
     [classes |-> <<ClsItem, ClsExtra>>, inNav |-> FALSE, child |-> TRUE],
     [classes |-> <<ClsItem>>, inNav |-> TRUE, child |-> TRUE]}

SelExtra == <<".", "e", "x", "t", "r", "a">>

SelUnparsable == <<"l", "i", ".", ".", "x">>

\* Exclusion lists without and with a selector that does not parse, alone,
\* before and after selectors that do; ignoreNav; the two thresholds
FilterOptionPool ==
    {[DefaultOptions EXCEPT !.minItems = m, !.excludeSelectors = x] :
        m \in {1, 2},
        x \in {<<SelExtra>>, <<SelUnparsable>>, <<SelUnparsable, SelExtra>>,
               <<SelExtra, SelUnparsable>>, <<<<"n", "a", "v">>, SelUnparsable, SelExtra>>, <<<<"u", "l">>>>}}
    \cup {[DefaultOptions EXCEPT !.minItems = m, !.ignoreNav = TRUE, !.excludeSelectors = x] :
            m \in {1, 2}, x \in {<<>>, <<SelUnparsable, SelExtra>>}}
    \cup {[DefaultOptions EXCEPT !.minItems = 1, !.minChildren = c, !.minTextLength = t] :
            c \in {<<>>, <<1>>}, t \in {<<>>, <<7>>}}
    \cup {[DefaultOptions EXCEPT !.minItems = 1, !.ignoreNav = TRUE,
                                 !.minChildren = <<1>>, !.minTextLength = <<7>>]}

InitMine ==
    /\ \/ /\ mn_doc \in {MineDoc(classLists) :
                            classLists \in SeqsUpTo(ClassAttrPool, MaxMineElements)}
          /\ mn_opts \in {[DefaultOptions EXCEPT !.minItems = m] : m \in {1, 2}}
       \/ /\ mn_doc \in {FilterDoc(items) : items \in SeqsUpTo(FilterItemPool, MaxMineElements)}
          /\ mn_opts \in FilterOptionPool
    /\ mn_tag = 1
    /\ mn_k = 0
    /\ mn_groups = <<>>
    /\ mn_results = <<>>
    /\ mn_pc = "tag"
    /\ IdleDedup /\ IdleType /\ IdleScore /\ IdleConf /\ IdleAnalyze

MineRest == <<vars_dd, vars_ty, vars_sc, vars_cf, vars_an>>

\* containerTags.forEach: the head of one iteration (analyzer.ts 346-350)
MineTag ==
    /\ mn_pc = "tag"
    /\ mn_tag <= Len(CONTAINER_TAGS)
    /\ IF Len(tagElements(mn_doc, CONTAINER_TAGS[mn_tag], mn_opts)) < mn_opts.minItems
       THEN mn_tag' = mn_tag + 1 /\ UNCHANGED <<mn_k, mn_groups, mn_pc>>
       ELSE mn_k' = 1 /\ mn_groups' = <<>> /\ mn_pc' = "element" /\ UNCHANGED mn_tag
    /\ UNCHANGED <<mn_doc, mn_opts, mn_results, MineRest>>

\* elements.forEach: one element (analyzer.ts 352-382)
MineElement ==
    LET elements == tagElements(mn_doc, CONTAINER_TAGS[mn_tag], mn_opts)
    IN  /\ mn_pc = "element"
        /\ mn_k <= Len(elements)
        /\ mn_groups' =
              IF admitted(mn_doc, elements[mn_k], mn_opts)
              THEN assignToGroup(mn_groups, getSemanticClasses(mn_doc[elements[mn_k]].classes),
                                 elements[mn_k])
              ELSE mn_groups
        /\ mn_k' = mn_k + 1
        /\ UNCHANGED <<mn_doc, mn_opts, mn_tag, mn_results, mn_pc, MineRest>>

\* groups.forEach (analyzer.ts 384-402)
MineEmit ==
    /\ mn_pc = "element"
    /\ mn_k > Len(tagElements(mn_doc, CONTAINER_TAGS[mn_tag], mn_opts))
    /\ mn_results' = mn_results \o groupsPatterns(mn_doc, CONTAINER_TAGS[mn_tag], mn_groups, mn_opts)
    /\ mn_tag' = mn_tag + 1
    /\ mn_pc' = "tag"
    /\ UNCHANGED <<mn_doc, mn_opts, mn_k, mn_groups, MineRest>>

\* return results (analyzer.ts 405)
MineReturn ==
    /\ mn_pc = "tag"
    /\ mn_tag > Len(CONTAINER_TAGS)
    /\ mn_pc' = "done"
    /\ UNCHANGED <<mn_doc, mn_opts, mn_tag, mn_k, mn_groups, mn_results, MineRest>>

NextMine == MineTag \/ MineElement \/ MineEmit \/ MineReturn

SpecMine == InitMine /\ [][NextMine]_vars

\* The loops, run to the end, give what findRepeatedPatterns gives
MineLoopsAgree ==
    mn_pc = "done" => mn_results = findRepeatedPatterns(mn_doc, mn_opts)

(***************************************************************************)
(* Specification Spec: analyzeUrl (analyzer.ts 111-220), one action per    *)
(* awaited call or synchronous stretch, run up to MaxRuns times on the     *)
(* same arguments.  The browser, the context and the navigation are the    *)
(* environment: each may succeed or fail.  The wall clock advances on its  *)
(* own; it is read once, when the schema is assembled, so its ticks are    *)
(* taken just before that read.                                            *)
(***************************************************************************)
MaxRuns == 2

\* The clock ticks often enough for every run to read a different time
MaxClock == MaxRuns - 1

UrlGood == "https://example.com/list"

UrlBad == "example.com/list"

\* new URL(url) does not throw (analyzer.ts 113-117)
UrlParses(u) == u = UrlGood

ScenarioADocs ==
    {DocScenarioA("distinct", "distinct"), DocScenarioA("distinct", "same"),
     DocScenarioA("distinct", "empty"), DocScenarioA("same", "distinct")}

DocPool ==
    ScenarioADocs
    \cup {DocScenarioB(f) : f \in BOOLEAN}
    \cup {DocPlain}

\* Manual container selectors: none, one matching the items of scenario A,
\* one matching those of scenario B, one matching nothing, one that does
\* not parse
ContainerPool == {<<>>, <<"l", "i", ".", "i", "t", "e", "m">>, <<"d", "i", "v", ".", "c", "a", "r", "d">>, <<".", "m", "i", "s", "s", "i", "n", "g">>, <<"l", "i", ".", ".", "i", "t", "e", "m">>}

OptionPool ==
    {[DefaultOptions EXCEPT !.containerSelector = t[1], !.minItems = t[2][1],
                            !.maxDepth = t[2][2], !.ignoreNav = t[2][3],
                            !.listPatterns = t[3][1], !.debug = t[3][2]] :
        t \in {u \in ContainerPool
                      \X {<<3, 10, FALSE>>, <<6, 10, FALSE>>, <<3, 2, FALSE>>, <<6, 2, TRUE>>}
                      \X {<<0, FALSE>>, <<5, FALSE>>, <<5, TRUE>>} :
                  \/ u[2] = <<3, 10, FALSE>>
                  \/ u[3] = <<0, FALSE>>
                  \/ u[2] = <<6, 2, TRUE>> /\ u[3] = <<5, TRUE>>}}
    \cup {[DefaultOptions EXCEPT !.fieldTypes = <<"text">>],
          [DefaultOptions EXCEPT !.fieldTypes = <<"href", "price">>],
          [DefaultOptions EXCEPT !.excludeSelectors = <<<<".", "i", "t", "e", "m">>>>],
          [DefaultOptions EXCEPT !.includeEmpty = TRUE],
          [DefaultOptions EXCEPT !.confidenceThreshold = 100],
          [DefaultOptions EXCEPT !.waitForSelector = <<".", "m", "i", "s", "s", "i", "n", "g">>],
          [DefaultOptions EXCEPT !.waitForSelector = <<"l", "i">>, !.containerSelector = <<".", "m", "i", "s", "s", "i", "n", "g">>],
          [DefaultOptions EXCEPT !.waitForSelector = <<".", "m", "i", "s", "s", "i", "n", "g">>, !.containerSelector = <<".", "m", "i", "s", "s", "i", "n", "g">>],
          [DefaultOptions EXCEPT !.excludeSelectors = <<<<".", "i", "t", "e", "m">>>>, !.containerSelector = <<"l", "i", ".", "i", "t", "e", "m">>]}

FreshRun ==
    /\ an_pc = "start"
    /\ an_browser = "none"
    /\ an_patterns = <<>>
    /\ an_scored = <<>>
    /\ an_best = <<>>
    /\ an_fields = <<>>
    /\ an_calls = <<>>
    /\ an_outcome = NoOutcome

Init ==
    /\ an_url \in {UrlGood, UrlBad}
    /\ \/ an_doc \in DocPool /\ an_opts \in OptionPool
       \/ an_doc = DocSymbols /\ an_opts \in {DefaultOptions,
                                              [DefaultOptions EXCEPT !.includeEmpty = TRUE]}
       \/ an_doc = DocUtility /\ an_opts \in {DefaultOptions,
                                              [DefaultOptions EXCEPT !.containerSelector = SelLiRow]}
       \/ an_doc = DocNavFirst /\ an_opts \in {[DefaultOptions EXCEPT !.ignoreNav = TRUE],
                                               [DefaultOptions EXCEPT !.excludeSelectors = <<<<"n", "a", "v">>>>]}
    /\ FreshRun
    /\ an_now = 0
    /\ an_results = <<>>
    /\ IdleDedup /\ IdleType /\ IdleScore /\ IdleConf /\ IdleMine

AnalyzeRest == <<vars_dd, vars_ty, vars_sc, vars_cf, vars_mn>>

AnalyzeArgs == <<an_url, an_doc, an_opts>>

\* An AnalyzerError of the given code (ui.ts 173-222)
ErrorOutcome(code, minItems, cause) ==
    [NoOutcome EXCEPT !.kind = "error", !.code = code, !.minItems = minItems, !.cause = cause]

\* The function settles without having launched a browser, or with the
\* browser left as it is: the run ends here
Settle(result) ==
    /\ an_outcome' = result
    /\ an_results' = Append(an_results, result)
    /\ an_pc' = "done"

\* A throw inside the try block: the catch clause wraps what is not an
\* AnalyzerError (analyzer.ts 214-216), then the finally clause runs
ThrowInTry(result) ==
    /\ an_outcome' = result
    /\ an_pc' = "finally"

\* analyzer.ts 112-117
ValidateUrl ==
    /\ an_pc = "start"
    /\ IF UrlParses(an_url)
       THEN an_pc' = "launch" /\ UNCHANGED <<an_outcome, an_results>>
       ELSE Settle(ErrorOutcome("INVALID_URL", 0, "none"))
    /\ UNCHANGED <<AnalyzeArgs, an_browser, an_patterns, an_scored, an_best, an_fields,
                   an_calls, an_now, AnalyzeRest>>

\* analyzer.ts 119-124
Launch ==
    /\ an_pc = "launch"
    /\ an_calls' = Append(an_calls, "chromium.launch")
    /\ \/ an_browser' = "open" /\ an_pc' = "context" /\ UNCHANGED <<an_outcome, an_results>>
       \/ Settle(ErrorOutcome("BROWSER_ERROR", 0, "LaunchError")) /\ UNCHANGED an_browser
    /\ UNCHANGED <<AnalyzeArgs, an_patterns, an_scored, an_best, an_fields, an_now, AnalyzeRest>>

\* analyzer.ts 126-143: newContext, addCookies, newPage.  These awaits are
\* outside the try block: when one rejects, the error leaves analyzeUrl as it
\* is and neither the catch nor the finally clause runs
NewContext ==
    /\ an_pc = "context"
    /\ an_calls' = Append(an_calls, "browser.newContext")
    /\ \/ an_pc' = "goto" /\ UNCHANGED <<an_outcome, an_results>>
       \/ Settle([NoOutcome EXCEPT !.kind = "error", !.code = "UNWRAPPED", !.cause = "ContextError"])
    /\ UNCHANGED <<AnalyzeArgs, an_browser, an_patterns, an_scored, an_best, an_fields, an_now,
                   AnalyzeRest>>

\* analyzer.ts 146-153
Goto ==
    /\ an_pc = "goto"
    /\ an_calls' = Append(an_calls, "page.goto")
    /\ \/ an_pc' = "wait" /\ UNCHANGED an_outcome
       \/ ThrowInTry(ErrorOutcome("PAGE_LOAD_FAILED", 0, "none"))
       \/ ThrowInTry(ErrorOutcome("NAVIGATION_ERROR", 0, "NetworkError"))
    /\ UNCHANGED <<AnalyzeArgs, an_browser, an_patterns, an_scored, an_best, an_fields, an_now,
                   an_results, AnalyzeRest>>

\* analyzer.ts 155-161: page.waitForSelector resolves when the selector
\* matches an element, and rejects (syntax error, or time-out) otherwise
WaitForSelector ==
    /\ an_pc = "wait"
    /\ IF an_opts.waitForSelector = <<>>
       THEN an_pc' = "branch" /\ UNCHANGED <<an_outcome, an_calls>>
       ELSE /\ an_calls' = Append(an_calls, "page.waitForSelector")
            /\ IF ~SelectorValid(an_opts.waitForSelector)
               THEN ThrowInTry(ErrorOutcome("NAVIGATION_ERROR", 0, "SyntaxError"))
               ELSE IF Len(querySelectorAll(an_doc, an_opts.waitForSelector)) = 0
               THEN ThrowInTry(ErrorOutcome("NAVIGATION_ERROR", 0, "TimeoutError"))
               ELSE an_pc' = "branch" /\ UNCHANGED an_outcome
    /\ UNCHANGED <<AnalyzeArgs, an_browser, an_patterns, an_scored, an_best, an_fields, an_now,
                   an_results, AnalyzeRest>>

\* Mutant: the manual branch is taken only when no pattern list is asked for
usesManualContainer_unlessListing(options) ==
    options.containerSelector # <<>> /\ options.listPatterns = 0

\* if (options.containerSelector) (analyzer.ts 165)
usesManualContainer(options) == options.containerSelector # <<>>

\* Mutant: a manual selector without matches is reported with options.minItems
manualMinItems_fromOptions(options) == options.minItems

\* The literal 1 of AnalyzerError.noPatternsFound(url, 1) (analyzer.ts 171)
manualMinItems(options) == 1

\* Mutant: a selector that does not parse is treated as one that matched
\* nothing
ManualPattern_swallowsSyntaxError ==
    /\ an_pc = "branch"
    /\ usesManualContainer(an_opts)
    /\ an_calls' = Append(an_calls, "getManualPattern")
    /\ IF ~SelectorValid(an_opts.containerSelector)
       THEN ThrowInTry(ErrorOutcome("NO_PATTERNS_FOUND", manualMinItems(an_opts), "none"))
            /\ UNCHANGED an_best
       ELSE LET manual == getManualPattern(an_doc, an_opts.containerSelector)
            IN  /\ an_best' = manual
                /\ IF manual = <<>>
                   THEN ThrowInTry(ErrorOutcome("NO_PATTERNS_FOUND", manualMinItems(an_opts), "none"))
                   ELSE an_pc' = "infer" /\ UNCHANGED an_outcome
    /\ UNCHANGED <<AnalyzeArgs, an_browser, an_patterns, an_scored, an_fields, an_now,
                   an_results, AnalyzeRest>>

\* analyzer.ts 165-172: the manual container
ManualPattern ==
    /\ an_pc = "branch"
    /\ usesManualContainer(an_opts)
    /\ an_calls' = Append(an_calls, "getManualPattern")
    /\ IF ~SelectorValid(an_opts.containerSelector)
       THEN ThrowInTry(ErrorOutcome("NAVIGATION_ERROR", 0, "SyntaxError")) /\ UNCHANGED an_best
       ELSE LET manual == getManualPattern(an_doc, an_opts.containerSelector)
            IN  /\ an_best' = manual
                /\ IF manual = <<>>
                   THEN ThrowInTry(ErrorOutcome("NO_PATTERNS_FOUND", manualMinItems(an_opts), "none"))
                   ELSE an_pc' = "infer" /\ UNCHANGED an_outcome
    /\ UNCHANGED <<AnalyzeArgs, an_browser, an_patterns, an_scored, an_fields, an_now,
                   an_results, AnalyzeRest>>

\* analyzer.ts 175: the miner
Mine ==
    /\ an_pc = "branch"
    /\ ~usesManualContainer(an_opts)
    /\ an_calls' = Append(an_calls, "findRepeatedPatterns")
    /\ an_patterns' = findRepeatedPatterns(an_doc, an_opts)
    /\ an_pc' = "select"
    /\ UNCHANGED <<AnalyzeArgs, an_browser, an_scored, an_best, an_fields, an_outcome, an_now,
                   an_results, AnalyzeRest>>

\* Mutant: the pattern list is made from a second run of the miner
Select_minesAgainForList ==
    LET listing == an_opts.listPatterns > 0
        selected == selectBestPattern(an_patterns, an_opts)
    IN  /\ an_pc = "select"
        /\ an_calls' = an_calls
                       \o (IF listing
                           THEN <<"findRepeatedPatterns", "scorePatterns", "printPatternList">>
                           ELSE <<>>)
                       \o <<"selectBestPattern">>
        /\ an_scored' = scorePatterns(an_patterns, an_opts)
        /\ an_best' = selected
        /\ IF selected = <<>>
           THEN ThrowInTry(ErrorOutcome("NO_PATTERNS_FOUND", an_opts.minItems, "none"))
           ELSE an_pc' = "infer" /\ UNCHANGED an_outcome
        /\ UNCHANGED <<AnalyzeArgs, an_browser, an_patterns, an_fields, an_now, an_results,
                       AnalyzeRest>>

\* analyzer.ts 177-187: the list of patterns when asked for, then the selection
Select ==
    LET listing == an_opts.listPatterns > 0
        selected == selectBestPattern(an_patterns, an_opts)
    IN  /\ an_pc = "select"
        /\ an_calls' = an_calls
                       \o (IF listing THEN <<"scorePatterns", "printPatternList">> ELSE <<>>)
                       \o <<"selectBestPattern">>
        /\ an_scored' = scorePatterns(an_patterns, an_opts)
        /\ an_best' = selected
        /\ IF selected = <<>>
           THEN ThrowInTry(ErrorOutcome("NO_PATTERNS_FOUND", an_opts.minItems, "none"))
           ELSE an_pc' = "infer" /\ UNCHANGED an_outcome
        /\ UNCHANGED <<AnalyzeArgs, an_browser, an_patterns, an_fields, an_now, an_results,
                       AnalyzeRest>>

\* analyzer.ts 191: inferFields; querySelectorAll throws inside the page when
\* the pattern's selector does not parse
Infer ==
    /\ an_pc = "infer"
    /\ an_calls' = Append(an_calls, "inferFields")
    /\ IF SelectorValid(an_best[1].selector)
       THEN /\ an_fields' = inferFields(an_doc, an_best[1].selector, an_opts)
            /\ an_pc' = "assemble"
            /\ UNCHANGED an_outcome
       ELSE ThrowInTry(ErrorOutcome("NAVIGATION_ERROR", 0, "SyntaxError")) /\ UNCHANGED an_fields
    /\ UNCHANGED <<AnalyzeArgs, an_browser, an_patterns, an_scored, an_best, an_now, an_results,
                   AnalyzeRest>>

\* The wall clock
Tick ==
    /\ an_pc = "assemble"
    /\ an_now < MaxClock
    /\ an_now' = an_now + 1
    /\ UNCHANGED <<AnalyzeArgs, an_pc, an_browser, an_patterns, an_scored, an_best, an_fields,
                   an_calls, an_outcome, an_results, AnalyzeRest>>

\* analyzer.ts 194-196
filterFieldTypes(fieldList, options) ==
    IF Len(options.fieldTypes) > 0
    THEN SelectSeq(fieldList, LAMBDA f : f.type \in Range(options.fieldTypes))
    ELSE fieldList

\* Mutant: the names are deduplicated before the type filter
assembleFields_dedupFirst(fieldList, options) ==
    filterFieldTypes(deduplicateFields(fieldList), options)

\* The type filter, then the deduplication of names (analyzer.ts 193-199)
assembleFields(fieldList, options) ==
    deduplicateFields(filterFieldTypes(fieldList, options))

\* analyzer.ts 204-211
schemaOf(u, timestamp, pattern, fieldList, confidence) ==
    [url |-> u, timestamp |-> timestamp, containerSelector |-> pattern.selector,
     fields |-> fieldList, itemCount |-> pattern.count, confidence |-> confidence]

\* analyzer.ts 193-213: type filter, deduplication, confidence, the schema
Assemble ==
    LET kept == assembleFields(an_fields, an_opts)
        confidence == calculateConfidence(an_best[1], kept, an_opts)
    IN  /\ an_pc = "assemble"
        /\ an_calls' = an_calls
                       \o (IF Len(an_opts.fieldTypes) > 0 THEN <<"fields.filter">> ELSE <<>>)
                       \o <<"deduplicateFields", "calculateConfidence">>
        /\ an_fields' = kept
        /\ an_outcome' = [NoOutcome EXCEPT !.kind = "schema",
                                           !.schema = schemaOf(an_url, an_now, an_best[1], kept,
                                                               confidence)]
        /\ an_pc' = "finally"
        /\ UNCHANGED <<AnalyzeArgs, an_browser, an_patterns, an_scored, an_best, an_now,
                       an_results, AnalyzeRest>>

\* analyzer.ts 217-219: the finally clause, then the function settles
Close ==
    /\ an_pc = "finally"
    /\ an_calls' = Append(an_calls, "browser.close")
    /\ an_browser' = "closed"
    /\ an_results' = Append(an_results, an_outcome)
    /\ an_pc' = "done"
    /\ UNCHANGED <<AnalyzeArgs, an_patterns, an_scored, an_best, an_fields, an_outcome, an_now,
                   AnalyzeRest>>

\* analyzeUrl is called again with the same arguments
RunAgain ==
    /\ an_pc = "done"
    /\ Len(an_results) < MaxRuns
    /\ an_pc' = "start"
    /\ an_browser' = "none"
    /\ an_patterns' = <<>>
    /\ an_scored' = <<>>
    /\ an_best' = <<>>
    /\ an_fields' = <<>>
    /\ an_calls' = <<>>
    /\ an_outcome' = NoOutcome
    /\ UNCHANGED <<AnalyzeArgs, an_now, an_results, AnalyzeRest>>

Next ==
    \/ ValidateUrl \/ Launch \/ NewContext \/ Goto \/ WaitForSelector
    \/ ManualPattern \/ Mine \/ Select \/ Infer \/ Tick \/ Assemble \/ Close \/ RunAgain

Spec == Init /\ [][Next]_vars

\* One call of analyzeUrl, from the arguments to the settled promise
NextOneCall ==
    \/ ValidateUrl \/ Launch \/ NewContext \/ Goto \/ WaitForSelector
    \/ ManualPattern \/ Mine \/ Select \/ Infer \/ Tick \/ Assemble \/ Close

SpecOneCall == Init /\ [][NextOneCall]_vars

(***************************************************************************)
(* Claims                                                                  *)
(***************************************************************************)

\* C1: after deduplicateFields no two fields of the result share a name,
\* for every input list (also one that already holds a name of the form x_1
\* next to a repeated x).
C1_DedupNamesUnique ==
    dd_pc = "done" =>
        \A i, j \in 1..Len(dd_out) : i # j => dd_out[i].name # dd_out[j].name

\* C2: selectBestPattern never returns a pattern whose diversity is below 0.2,
\* whatever its item count and whatever other candidates (if any) there are.
C2_GatedNeverSelected ==
    (sc_pc = "done" /\ sc_best # <<>>) => ~DiversityGate(calculateDiversity(sc_best[1].samples))

\* The schemas of the first two runs, when both runs returned one
BothRunsReturned ==
    /\ Len(an_results) >= 2
    /\ an_results[1].kind = "schema"
    /\ an_results[2].kind = "schema"

C4_ConfidenceBounds ==
    /\ cf_pc \in {"confidence", "done"} =>
          \A k \in 1..Len(cf_fields) :
              cf_fields[k].confidence >= 0 /\ cf_fields[k].confidence <= 100
    /\ cf_pc = "done" => cf_conf >= 0 /\ cf_conf <= 100

C4_Witness ==
    /\ cf_pc = "done"
    /\ Len(cf_fields) > 5
    /\ cf_count > 2 * cf_opts.minItems
    /\ cf_conf = 100

\* C5: while the miner assigns the elements of one tag, the number of classes
\* in a group's signature never increases when an element joins the group.
C5_SignatureNeverGrows ==
    [][(mn_pc = "element" /\ mn_pc' = "element") =>
          \A g \in 1..Len(mn_groups) :
              Len(mn_groups'[g].classes) <= Len(mn_groups[g].classes)]_vars

\* Scenario B with the default options, once selectBestPattern has returned
ScenarioBSelected ==
    /\ an_doc \in {DocScenarioB(TRUE), DocScenarioB(FALSE)}
    /\ an_opts = DefaultOptions
    /\ an_pc \in {"infer", "assemble", "finally", "done"}
    /\ "selectBestPattern" \in Range(an_calls)

\* C6: in scenario B (four a.nav-link all reading "Home", four div.card with
\* different texts, default options) the anchor group is gated, its score
\* being forced to -100, and div.card is the selected container.
C6_ScenarioB ==
    ScenarioBSelected =>
        /\ \E k \in 1..Len(an_scored) :
              /\ an_scored[k].pattern.selector = SelANavLink
              /\ an_scored[k].score = -100 * ScoreScale
        /\ an_best # <<>>
        /\ an_best[1].selector = SelDivCard

\* Scenario A: the hrefs differ from item to item and the link text is kept
ScenarioAWithLinks ==
    \/ an_doc \in {DocScenarioA("distinct", "distinct"), DocScenarioA("distinct", "same")}
    \/ an_doc = DocScenarioA("distinct", "empty") /\ an_opts.includeEmpty

\* The options of scenario A: minItems = 3, no manual container, and the
\* type filter lets href through
ScenarioAOptions ==
    /\ an_opts.minItems = 3
    /\ an_opts.containerSelector = <<>>
    /\ an_opts.fieldTypes = <<>> \/ "href" \in Range(an_opts.fieldTypes)

\* The container is li.item.extra and one field is of type href, with
\* confidence 1.0
ScenarioAResult(schema) ==
    LET hrefs == SelectSeq(schema.fields, LAMBDA f : f.type = "href")
    IN  /\ schema.containerSelector = <<"l", "i", ".", "i", "t", "e", "m", ".", "e", "x", "t", "r", "a">>
        /\ Len(hrefs) = 1
        /\ hrefs[1].confidence = 100

\* C7 as stated: five <li class="item extra"> with different texts and an
\* <a href> child each, minItems = 3: the container is li.item.extra and the
\* schema has exactly one href field, of confidence 1.0.
C7_ScenarioA ==
    (/\ an_doc \in ScenarioADocs
     /\ ScenarioAOptions
     /\ an_outcome.kind = "schema") => ScenarioAResult(an_outcome.schema)

\* C7: in scenario A, when moreover the five hrefs are pairwise different
\* and the anchors have text (or includeEmpty is set), a returned schema has
\* the container li.item.extra and exactly one href field, of confidence 1.0.
C7_ScenarioAWithLinks ==
    (/\ ScenarioAWithLinks
     /\ ScenarioAOptions
     /\ an_outcome.kind = "schema") => ScenarioAResult(an_outcome.schema)

C7_Witness ==
    /\ an_doc = DocScenarioA("distinct", "distinct")
    /\ an_opts = DefaultOptions
    /\ an_pc = "done"
    /\ an_outcome.kind = "schema"
    /\ "findRepeatedPatterns" \in Range(an_calls)
    /\ \E k \in 1..Len(an_outcome.schema.fields) : an_outcome.schema.fields[k].type = "href"

\* A manual container selector is supplied, parses, and matches no element
ManualMatchesNothing ==
    /\ an_opts.containerSelector # <<>>
    /\ SelectorValid(an_opts.containerSelector)
    /\ Len(querySelectorAll(an_doc, an_opts.containerSelector)) = 0

\* The document was not obtained: bad URL, no browser, no page, failed load
DocumentUnavailable ==
    \/ an_outcome.code \in {"INVALID_URL", "BROWSER_ERROR", "UNWRAPPED", "PAGE_LOAD_FAILED"}
    \/ an_outcome.cause = "NetworkError"

\* options.waitForSelector is absent or matches an element of the document
WaitSatisfied ==
    \/ an_opts.waitForSelector = <<>>
    \/ /\ SelectorValid(an_opts.waitForSelector)
       /\ Len(querySelectorAll(an_doc, an_opts.waitForSelector)) > 0

ReportsNoPatterns ==
    /\ an_outcome.kind = "error"
    /\ an_outcome.code = "NO_PATTERNS_FOUND"
    /\ an_outcome.minItems = 1

\* C8 as stated: on a loaded document a manual selector without matches ends
\* analyzeUrl with NO_PATTERNS_FOUND (minItems 1), whatever the other options.
C8_ManualNoMatchAnyOptions ==
    (an_pc = "done" /\ ManualMatchesNothing /\ ~DocumentUnavailable) => ReportsNoPatterns

\* C8: a manual container selector that matches no element never yields a
\* Schema; once the document is loaded and waitForSelector (if given) has
\* matched, analyzeUrl fails with NO_PATTERNS_FOUND reported with minItems 1,
\* whatever minItems, maxDepth, the exclusions and the listing options are.
C8_ManualNoMatch ==
    (an_pc = "done" /\ ManualMatchesNothing) =>
        /\ an_outcome.kind = "error"
        /\ (~DocumentUnavailable /\ WaitSatisfied) => ReportsNoPatterns

C8_Witness ==
    /\ an_pc = "done"
    /\ ManualMatchesNothing
    /\ ReportsNoPatterns
    /\ an_opts.minItems = 6
    /\ an_opts.maxDepth = 2
    /\ an_opts.ignoreNav
    /\ an_opts.listPatterns > 0

\* C9: with a manual container selector findRepeatedPatterns, scorePatterns,
\* selectBestPattern and the pattern list are never called, also when
\* listPatterns or debug is set, and a returned Schema has the supplied
\* selector as containerSelector and the number of elements it matches as
\* itemCount, whatever minItems, maxDepth, excludeSelectors and ignoreNav are.
C9_ManualBypassesMining ==
    an_opts.containerSelector # <<>> =>
        /\ Range(an_calls) \cap {"findRepeatedPatterns", "scorePatterns", "selectBestPattern",
                                 "printPatternList"} = {}
        /\ an_outcome.kind = "schema" =>
              /\ an_outcome.schema.containerSelector = an_opts.containerSelector
              /\ an_outcome.schema.itemCount
                     = Len(querySelectorAll(an_doc, an_opts.containerSelector))

C9_Witness ==
    /\ an_opts.containerSelector # <<>>
    /\ an_pc = "done"
    /\ an_outcome.kind = "schema"
    /\ an_outcome.schema.itemCount = 5
    /\ an_opts.listPatterns > 0
    /\ an_opts.debug
    /\ an_opts.minItems = 6
    /\ an_opts.maxDepth = 2
    /\ an_opts.ignoreNav

\* C10: inferType classifies "£51.77" as price, "2024-01-15" as date, "42" as
\* number and "Hello world" as text; in general the result is the first type,
\* in the order price, number, date, text, whose test the text passes.
C10_InferTypeCascade ==
    ty_pc = "done" =>
        /\ ty_text = TextPound5177 => ty_out = "price"
        /\ ty_text = TextIsoDate => ty_out = "date"
        /\ ty_text = TextFortyTwo => ty_out = "number"
        /\ ty_text = TextHelloWorld => ty_out = "text"
        /\ LET isPrice == PriceSymbolFirst(ty_text) \/ PriceSymbolLast(ty_text)
               isNumber == NumberRe(ty_text)
               isDate == DateNumericRe(ty_text) \/ DateMonthRe(ty_text)
           IN  /\ ty_out = "price" <=> isPrice
               /\ ty_out = "number" <=> ~isPrice /\ isNumber
               /\ ty_out = "date" <=> ~isPrice /\ ~isNumber /\ isDate
               /\ ty_out = "text" <=> ~isPrice /\ ~isNumber /\ ~isDate

C10_Witness ==
    ty_pc = "done" /\ ty_text = TextIsoDate /\ ty_out = "date"

\* The miner has returned; the groups are those of <li>, the one container
\* tag the mined documents have elements of
MinerReturned == mn_pc = "done"

\* The set of semantic classes of one element
semanticSet(d, el) == Range(getSemanticClasses(d[el].classes))

\* C11: every pattern the miner emits has count >= minItems and comes from a
\* group whose signature is not empty and is, as a set, the intersection of
\* the semantic class sets of the elements counted in the pattern.
C11_EmittedPatterns ==
    MinerReturned =>
        \A k \in 1..Len(mn_results) :
            /\ mn_results[k].count >= mn_opts.minItems
            /\ \E g \in 1..Len(mn_groups) :
                  LET group == mn_groups[g]
                  IN  /\ mn_results[k] = groupPattern(mn_doc, TagLi, group)
                      /\ Len(group.elements) = mn_results[k].count
                      /\ Range(group.classes) # {}
                      /\ \A cls \in Range(group.classes) :
                            \A m \in 1..Len(group.elements) :
                                cls \in semanticSet(mn_doc, group.elements[m])
                      /\ \A cls \in semanticSet(mn_doc, group.elements[1]) :
                            (\A m \in 1..Len(group.elements) :
                                cls \in semanticSet(mn_doc, group.elements[m]))
                            => cls \in Range(group.classes)

C11_Witness ==
    /\ MinerReturned
    /\ mn_opts.minItems = 2
    /\ \E k \in 1..Len(mn_results) : mn_results[k].count >= 3
    /\ \E g \in 1..Len(mn_groups) :
          /\ Len(mn_groups[g].elements) >= 3
          /\ Cardinality(Range(mn_groups[g].classes))
                < Cardinality(semanticSet(mn_doc, mn_groups[g].elements[1]))

\* The patterns and their scores, in the order of the scored list
Ranking(scored) == [k \in 1..Len(scored) |-> <<scored[k].pattern, scored[k].score>>]

DiagnosticsOff(options) == [options EXCEPT !.debug = FALSE, !.listPatterns = 0]

\* C12: for every list of candidate patterns and every setting of the other
\* options, the score of each pattern, the ranking and the pattern that
\* selectBestPattern returns are the same with debug or listPatterns set as
\* with both off.
C12_DiagnosticsNeutral ==
    sc_pc = "done" =>
        /\ Ranking(sc_scored) = Ranking(scorePatterns(sc_patterns, DiagnosticsOff(sc_opts)))
        /\ sc_best = selectBestPattern(sc_patterns, DiagnosticsOff(sc_opts))

C12_Witness ==
    /\ sc_pc = "done"
    /\ sc_opts.debug
    /\ sc_opts.listPatterns > 0
    /\ Len(sc_scored) = 2
    /\ sc_scored[1].breakdown # <<>>
    /\ sc_scored[1].pattern = sc_patterns[2]
    /\ sc_scored[1].score > sc_scored[2].score

\* The unrounded ratio of distinct samples is at least the threshold
RatioMeets(data, threshold) ==
    1000 * Cardinality(Range(data.samples)) >= threshold * Len(data.samples)

\* The entries of the field map whose ratio meets the threshold are the
\* emitted fields, one for one and in order
EmittedAreThoseMeeting ==
    LET passing == SelectSeq(cf_map, LAMBDA data : RatioMeets(data, cf_opts.confidenceThreshold))
    IN  /\ Len(cf_fields) = Len(passing)
        /\ \A k \in 1..Len(passing) :
              /\ cf_fields[k].name = passing[k].name
              /\ cf_fields[k].sample = passing[k].samples[1]
              /\ cf_fields[k].confidence = RoundDiv(100 * Cardinality(Range(passing[k].samples)),
                                                    Len(passing[k].samples))

\* C13 as stated: every emitted field's two-decimal confidence is at least
\* confidenceThreshold, and every raw field whose confidence is at least the
\* threshold is emitted.
C13_EmittedValueMeetsThreshold ==
    cf_pc \in {"confidence", "done"} =>
        /\ \A k \in 1..Len(cf_fields) :
              10 * cf_fields[k].confidence >= cf_opts.confidenceThreshold
        /\ EmittedAreThoseMeeting

\* C13: the fields emitted are exactly the raw fields whose unrounded
\* confidence (distinct samples over samples) is at least confidenceThreshold;
\* the emitted two-decimal value is then at least the threshold minus 0.005,
\* and at least the threshold itself when the threshold has two decimals.
C13_RatioMeetsThreshold ==
    cf_pc \in {"confidence", "done"} =>
        /\ EmittedAreThoseMeeting
        /\ \A k \in 1..Len(cf_fields) :
              /\ 10 * cf_fields[k].confidence >= cf_opts.confidenceThreshold - 5
              /\ cf_opts.confidenceThreshold % 10 = 0
                    => 10 * cf_fields[k].confidence >= cf_opts.confidenceThreshold

C13_Witness ==
    /\ cf_pc = "done"
    /\ cf_opts.confidenceThreshold = 333
    /\ Len(cf_fields) >= 2
    /\ \E k \in 1..Len(cf_fields) : cf_fields[k].confidence = 33
    /\ \E k \in 1..Len(cf_fields) : cf_fields[k].confidence = 67

\* The elements counted so far: the members of the groups of the current tag
GroupedElements == UNION {Range(mn_groups[g].elements) : g \in 1..Len(mn_groups)}

\* Element el matches the selector or lies inside an element that does
MatchesOrInside(d, el, sel) ==
    \E m \in 1..Len(d) : Matches(d, m, sel) /\ (m = el \/ IsAncestor(d, m, el))

ParsingExclusions(options) == SelectSeq(options.excludeSelectors, SelectorValid)

\* C14: an exclusion selector that does not parse is skipped and the miner
\* returns as if it were not in the list; every selector of the list that
\* parses, before or after it, is applied: no counted element matches one or
\* lies inside a match.
C14_InvalidExclusionSkipped ==
    /\ \A el \in GroupedElements :
          \A k \in 1..Len(mn_opts.excludeSelectors) :
              SelectorValid(mn_opts.excludeSelectors[k])
                  => ~MatchesOrInside(mn_doc, el, mn_opts.excludeSelectors[k])
    /\ MinerReturned =>
          mn_results = findRepeatedPatterns(
                           mn_doc, [mn_opts EXCEPT !.excludeSelectors = ParsingExclusions(mn_opts)])

C14_Witness ==
    /\ MinerReturned
    /\ mn_opts.excludeSelectors = <<<<"n", "a", "v">>, SelUnparsable, SelExtra>>
    /\ Len(mn_results) = 1
    /\ mn_results[1].count = 1
    /\ \E el \in 1..Len(mn_doc) : ClsExtra \in Range(mn_doc[el].classes)
    /\ \E el \in 1..Len(mn_doc) : mn_doc[el].tag = <<"n", "a", "v">> /\ Children(mn_doc, el) # <<>>

\* C15: every field name that field extraction produces is non-empty, also
\* when the link text, alt text or leaf text it is made from is non-empty but
\* has no character of [a-z0-9] after lowercasing (the name is then link,
\* image or the tag name).
C15_FieldNamesNonEmpty ==
    an_pc = "assemble" => \A k \in 1..Len(an_fields) : an_fields[k].name # <<>>

\* The automatic branch has run selectBestPattern in this run
AutomaticSelected ==
    /\ an_opts.containerSelector = <<>>
    /\ "selectBestPattern" \in Range(an_calls)

SomeWithinDepth ==
    \E k \in 1..Len(an_patterns) : an_patterns[k].depth <= an_opts.maxDepth

\* C16: in automatic mode analyzeUrl fails with NO_PATTERNS_FOUND (reported
\* with options.minItems) exactly when no mined candidate has depth <=
\* maxDepth, the empty list of candidates included; otherwise it goes on with
\* a mined candidate whose depth is <= maxDepth and whose count is >= minItems.
C16_NoPatternsIffNoneWithinDepth ==
    AutomaticSelected =>
        /\ an_pc = "infer" => an_patterns = findRepeatedPatterns(an_doc, an_opts)
        /\ (an_outcome.kind = "error" /\ an_outcome.code = "NO_PATTERNS_FOUND") <=> ~SomeWithinDepth
        /\ ~SomeWithinDepth => an_outcome.minItems = an_opts.minItems /\ an_best = <<>>
        /\ SomeWithinDepth =>
              /\ an_best # <<>>
              /\ an_best[1] \in Range(an_patterns)
              /\ an_best[1].depth <= an_opts.maxDepth
              /\ an_best[1].count >= an_opts.minItems

\* No candidate within maxDepth although some were mined
C16_Witness ==
    /\ AutomaticSelected
    /\ an_pc = "done"
    /\ Len(an_patterns) >= 1
    /\ ~SomeWithinDepth
    /\ an_outcome.code = "NO_PATTERNS_FOUND"

\* What inferFields returns for the selected pattern: the raw fields that
\* passed the confidence filter
InferredFields == inferFields(an_doc, an_best[1].selector, an_opts)

TypeAllowed(f) == f.type \in Range(an_opts.fieldTypes)

\* C17: with a non-empty fieldTypes every field of the Schema has a type of
\* fieldTypes, with an empty one no field is removed by type; the type filter
\* is applied to the fields that passed the confidence filter and before the
\* names are deduplicated, so the _N suffixes count surviving fields only.
\* Read when analyzeUrl has just built the Schema.
C17_TypeFilterBeforeDedup ==
    LET SurvivorsRenamed(emitted, inferred) ==
            /\ an_opts.fieldTypes # <<>> =>
                  /\ \A k \in 1..Len(emitted) : TypeAllowed(emitted[k])
                  /\ emitted = deduplicateFields(SelectSeq(inferred, TypeAllowed))
            /\ an_opts.fieldTypes = <<>> =>
                  /\ Len(emitted) = Len(inferred)
                  /\ emitted = deduplicateFields(inferred)
    IN  (an_outcome.kind = "schema" /\ an_pc = "finally") =>
            SurvivorsRenamed(an_outcome.schema.fields, InferredFields)

\* Two inferred fields share a name; the type filter removes the first of
\* them and the second keeps the name without a suffix
C17_Witness ==
    /\ an_outcome.kind = "schema"
    /\ an_pc = "finally"
    /\ an_opts.fieldTypes = <<"text">>
    /\ Len(InferredFields) = 2
    /\ InferredFields[1].name = InferredFields[2].name
    /\ InferredFields[1].type = "href"
    /\ Len(an_outcome.schema.fields) = 1
    /\ an_outcome.schema.fields[1].name = InferredFields[2].name

WithinMaxDepth(p) == p.depth <= sc_opts.maxDepth

Rearrangements(n) == {f \in [1..n -> 1..n] : \A i, j \in 1..n : i # j => f[i] # f[j]}

\* The scored list is the list `kept` rearranged by a permutation that puts
\* higher scores first and keeps the input order among equal scores
StableDescending(scored, kept) ==
    /\ Len(scored) = Len(kept)
    /\ \E f \in Rearrangements(Len(kept)) :
          /\ \A i \in 1..Len(kept) : scored[i].pattern = kept[f[i]]
          /\ \A i, j \in 1..Len(kept) :
                i < j => \/ scored[i].score > scored[j].score
                         \/ scored[i].score = scored[j].score /\ f[i] < f[j]

\* C18: scorePatterns returns exactly the input patterns of depth <= maxDepth,
\* by non-increasing score, equal scores in discovery order, and
\* selectBestPattern returns the first of them, or null when there is none.
C18_ScoredListOrder ==
    sc_pc = "done" =>
        /\ StableDescending(sc_scored, SelectSeq(sc_patterns, WithinMaxDepth))
        /\ sc_best = IF sc_scored = <<>> THEN <<>> ELSE <<sc_scored[1].pattern>>

\* Two different patterns of equal score are both kept
C18_Witness ==
    /\ sc_pc = "done"
    /\ Len(sc_scored) = 2
    /\ sc_scored[1].score = sc_scored[2].score
    /\ sc_scored[1].pattern # sc_scored[2].pattern
    /\ sc_scored[1].pattern = sc_patterns[1]

\* The element the miner is looking at, and its semantic classes
CurrentElement == tagElements(mn_doc, CONTAINER_TAGS[mn_tag], mn_opts)[mn_k]

CurrentClasses == getSemanticClasses(mn_doc[CurrentElement].classes)

\* The classes an element shares with a group's signature
SharedClasses(semanticClasses, group) == Range(semanticClasses) \cap Range(group.classes)

\* The earliest-opened group among those sharing the most classes (0 when
\* no group shares a class)
LargestSharing(groups, semanticClasses) ==
    LET sharing == {g \in 1..Len(groups) : SharedClasses(semanticClasses, groups[g]) # {}}
        most == {g \in sharing :
                    \A h \in sharing : Cardinality(SharedClasses(semanticClasses, groups[h]))
                                       <= Cardinality(SharedClasses(semanticClasses, groups[g]))}
    IN  IF sharing = {} THEN 0 ELSE CHOOSE g \in most : \A h \in most : g <= h

\* One step of the loop over the elements: an admitted element with a
\* semantic class joins the open group whose
\* signature shares the most classes with it (the earliest-opened one on a
\* tie), that group's signature becomes the shared classes and the other
\* groups are left alone; a new group seeded with the element's semantic
\* classes is opened only when no group shares a class; so the element ends
\* in exactly one group.
JoinsLargestSharing ==
    (/\ mn_pc = "element"
        /\ mn_k' = mn_k + 1
        /\ admitted(mn_doc, CurrentElement, mn_opts)
        /\ CurrentClasses # <<>>) =>
          LET target == LargestSharing(mn_groups, CurrentClasses)
          IN  IF target = 0
              THEN mn_groups' = Append(mn_groups, [classes |-> CurrentClasses,
                                                   elements |-> <<CurrentElement>>])
              ELSE /\ Len(mn_groups') = Len(mn_groups)
                   /\ mn_groups'[target].elements = Append(mn_groups[target].elements, CurrentElement)
                   /\ Range(mn_groups'[target].classes) = SharedClasses(CurrentClasses, mn_groups[target])
                   /\ \A g \in 1..Len(mn_groups) : g # target => mn_groups'[g] = mn_groups[g]

\* C19: every step of the miner's pass over the admitted elements of one tag
\* puts the element in the group sharing the most classes with it, earliest
\* first, or in a new group when none shares a class.
C19_JoinsLargestIntersection == [][JoinsLargestSharing]_vars

\* The same, read only on documents whose class attributes repeat no token
NoRepeatedToken ==
    \A i \in 1..Len(mn_doc) : Cardinality(Range(mn_doc[i].classes)) = Len(mn_doc[i].classes)

C19_JoinsLargestIntersectionNoRepeats ==
    [][NoRepeatedToken => JoinsLargestSharing]_vars

\* The exclusion selectors in force: the explicit list, and the navigation
\* list when ignoreNav is set
ExclusionsInForce ==
    mn_opts.excludeSelectors \o (IF mn_opts.ignoreNav THEN NAV_SELECTORS ELSE <<>>)

PassedAdmission(el) ==
    /\ \A k \in 1..Len(ExclusionsInForce) :
          SelectorValid(ExclusionsInForce[k])
              => ~MatchesOrInside(mn_doc, el, ExclusionsInForce[k])
    /\ mn_opts.minChildren # <<>> => Len(Children(mn_doc, el)) >= mn_opts.minChildren[1]
    /\ mn_opts.minTextLength # <<>>
          => Len(Trim(textContent(mn_doc, el))) >= mn_opts.minTextLength[1]

\* C20: every element the miner counts in a group, hence in a pattern, passed
\* the admission filters: it does not match an exclusion selector in force
\* and has no ancestor that does, it has at least minChildren child elements
\* when minChildren is set, and its trimmed text has at least minTextLength
\* characters when minTextLength is set.
C20_CountedPassedAdmission ==
    \A el \in GroupedElements : PassedAdmission(el)

\* One <li> is inside <nav>, one has no child and a short text, one passes
\* all three filters and is the only one counted
C20_Witness ==
    /\ MinerReturned
    /\ mn_opts.ignoreNav /\ mn_opts.minChildren = <<1>> /\ mn_opts.minTextLength = <<7>>
    /\ Len(querySelectorAll(mn_doc, TagLi)) = 3
    /\ \E el \in Range(querySelectorAll(mn_doc, TagLi)) :
          MatchesOrInside(mn_doc, el, <<"n", "a", "v">>) /\ Children(mn_doc, el) # <<>>
    /\ \E el \in Range(querySelectorAll(mn_doc, TagLi)) :
          ~MatchesOrInside(mn_doc, el, <<"n", "a", "v">>) /\ Children(mn_doc, el) = <<>>
    /\ Len(mn_results) = 1
    /\ mn_results[1].count = 1
    /\ GroupedElements # {}

\* C21: once chromium.launch has succeeded, browser.close() has been called
\* when analyzeUrl settles, on every path: a returned Schema, an AnalyzerError,
\* and an exception raised while creating the context, adding cookies,
\* opening the page, navigating, mining or extracting.
C21_BrowserClosedWhenSettled ==
    an_pc = "done" => an_browser # "open"

\* The normalised texts of the samples that have one
textsOf(samples) ==
    SelectSeq([i \in 1..Len(samples) |-> normalizeSampleText(samples[i].text)],
              LAMBDA t : t # <<>>)

\* 0.5 when no sample has text, otherwise unique / total, times DivScale
DiversityAsStated(samples) ==
    IF textsOf(samples) = <<>> THEN DivScale \div 2
    ELSE (Cardinality(Range(textsOf(samples))) * DivScale) \div Len(textsOf(samples))

\* C22: calculateDiversity returns 0.5 for every sample set in which no sample
\* has text after normalisation, whatever the number of samples, and otherwise
\* the number of different normalised texts over their number, within [0, 1].
C22_DiversityValue ==
    \A k \in 1..Len(sc_scored) :
        /\ sc_scored[k].diversityScore = DiversityAsStated(sc_scored[k].pattern.samples)
        /\ sc_scored[k].diversityScore >= 0
        /\ sc_scored[k].diversityScore <= DivScale

\* The number of calls of one function in the run so far
CallCount(name) == Cardinality({i \in 1..Len(an_calls) : an_calls[i] = name})

\* Every call of `first` precedes every call of `second`
CalledBefore(first, second) ==
    \A i, j \in 1..Len(an_calls) :
        (an_calls[i] = first /\ an_calls[j] = second) => i < j

\* C23: in automatic mode a run issues one mining query, which returns before
\* the selection, the selection returns before the one extraction query, and
\* the type filter, the deduplication and the confidence follow in that
\* order; there is no extraction query when the selection gives no pattern.
\* The queries are awaited one after the other: a step of the run is one
\* call, so no two are in flight together.
C23_PipelineOrder ==
    an_opts.containerSelector = <<>> =>
        /\ CallCount("findRepeatedPatterns") <= 1
        /\ CallCount("inferFields") <= 1
        /\ CallCount("selectBestPattern") <= 1
        /\ CallCount("getManualPattern") = 0
        /\ CallCount("selectBestPattern") = 1 => CallCount("findRepeatedPatterns") = 1
        /\ CallCount("inferFields") = 1 =>
              CallCount("selectBestPattern") = 1 /\ an_best # <<>>
        /\ CallCount("deduplicateFields") <= CallCount("inferFields")
        /\ CallCount("calculateConfidence") = CallCount("deduplicateFields")
        /\ CallCount("fields.filter") <= CallCount("deduplicateFields")
        /\ CalledBefore("findRepeatedPatterns", "scorePatterns")
        /\ CalledBefore("findRepeatedPatterns", "selectBestPattern")
        /\ CalledBefore("selectBestPattern", "inferFields")
        /\ CalledBefore("inferFields", "fields.filter")
        /\ CalledBefore("fields.filter", "deduplicateFields")
        /\ CalledBefore("deduplicateFields", "calculateConfidence")
        /\ an_pc \in {"assemble", "finally", "done"} /\ an_best = <<>>
              => CallCount("inferFields") = 0
        /\ an_outcome.kind = "schema" =>
              /\ CallCount("findRepeatedPatterns") = 1
              /\ CallCount("inferFields") = 1
              /\ CallCount("deduplicateFields") = 1

\* A run that lists the patterns and returns a Schema
C23_Witness ==
    /\ an_opts.containerSelector = <<>>
    /\ an_pc = "done"
    /\ an_outcome.kind = "schema"
    /\ an_calls = <<"chromium.launch", "browser.newContext", "page.goto",
                    "findRepeatedPatterns", "scorePatterns", "printPatternList",
                    "selectBestPattern", "inferFields", "deduplicateFields",
                    "calculateConfidence", "browser.close">>

\* The containers inferFields samples for the pattern in hand
SampledContainers ==
    LET containers == querySelectorAll(an_doc, an_best[1].selector)
    IN  SubSeq(containers, 1, Min(SAMPLE_COUNT, Len(containers)))

\* The elements of one container that are at the position `key` (a kind or
\* type tag and the path from the container), with the value each gives
ValuesAt(container, key) ==
    LET nodes == Descendants(an_doc, container)
        Slot(el) ==
            LET text == Trim(textContent(an_doc, el))
                path == getElementPath(an_doc, el, container)
                shown == text # <<>> \/ an_opts.includeEmpty
            IN  (IF an_doc[el].tag = <<"a">> /\ an_doc[el].href # <<>> /\ shown
                     /\ key = <<"l", "i", "n", "k", "_">> \o path
                 THEN <<an_doc[el].href[1]>> ELSE <<>>)
                \o (IF an_doc[el].tag = <<"i", "m", "g">> /\ an_doc[el].src # <<>>
                       /\ key = <<"i", "m", "g", "_">> \o path
                    THEN <<an_doc[el].src[1]>> ELSE <<>>)
                \o (IF Len(Children(an_doc, el)) = 0 /\ shown
                       /\ key = TypeName(inferType(text)) \o <<"_">> \o path
                    THEN <<text>> ELSE <<>>)
        RECURSIVE From(_)
        From(k) == IF k > Len(nodes) THEN <<>> ELSE Slot(nodes[k]) \o From(k + 1)
    IN  From(1)

\* The values at one position over the sampled containers, in sampling order
RECURSIVE ValuesOver(_, _, _)
ValuesOver(containers, k, key) ==
    IF k > Len(containers) THEN <<>>
    ELSE ValuesAt(containers[k], key) \o ValuesOver(containers, k + 1, key)

\* The positions one container has, as the walk of that container alone
\* finds them
PositionsOf(container) ==
    LET alone == walkNodes(<<>>, an_doc, Descendants(an_doc, container), 1, container,
                           an_best[1].selector, an_opts.includeEmpty)
    IN  {alone[k].key : k \in 1..Len(alone)}

\* C24: the elements at one structural position in the sampled containers
\* make one Raw Field, whose samples are the values of those elements in
\* sampling order; so when the sampled containers have the same positions
\* the number of Raw Fields is the number of positions of one container,
\* however many containers are sampled.
C24_SlotsMerged ==
    (an_pc = "assemble" /\ SelectorValid(an_best[1].selector)) =>
        LET raw == rawFields(an_doc, an_best[1].selector, an_opts)
        IN  /\ \A i, j \in 1..Len(raw) : i # j => raw[i].key # raw[j].key
            /\ \A k \in 1..Len(raw) :
                  raw[k].samples = ValuesOver(SampledContainers, 1, raw[k].key)
            /\ {raw[k].key : k \in 1..Len(raw)}
                  = UNION {PositionsOf(c) : c \in Range(SampledContainers)}
            /\ (\A c \in Range(SampledContainers) :
                    PositionsOf(c) = PositionsOf(SampledContainers[1]))
                  => Len(raw) = Cardinality(PositionsOf(SampledContainers[1]))
            /\ Len(an_fields) <= Len(raw)

\* Five sampled containers with a link each: two Raw Fields (the link and
\* its text) of five samples
C24_Witness ==
    /\ an_pc = "assemble"
    /\ Len(SampledContainers) = SAMPLE_COUNT
    /\ LET raw == rawFields(an_doc, an_best[1].selector, an_opts)
       IN  /\ Len(raw) = 2
           /\ Len(raw[1].samples) = SAMPLE_COUNT
           /\ raw[1].samples[1] # raw[1].samples[SAMPLE_COUNT]
           /\ raw[1].type = "href"

\* The number of fields before the i-th that have its name
EarlierSameName(fields, i) ==
    Cardinality({j \in 1..(i - 1) : fields[j].name = fields[i].name})

\* C25: deduplicateFields keeps the number and the order of the fields and
\* every attribute but the name; the first field of a name keeps it, the k-th
\* later field of the same original name becomes name_k, and a field whose
\* name occurs once is returned as it is.
C25_DedupFrame ==
    dd_pc = "done" =>
        /\ Len(dd_out) = Len(dd_in)
        /\ \A i \in 1..Len(dd_in) :
              LET k == EarlierSameName(dd_in, i)
              IN  /\ dd_out[i].selector = dd_in[i].selector
                  /\ dd_out[i].type = dd_in[i].type
                  /\ dd_out[i].confidence = dd_in[i].confidence
                  /\ dd_out[i].sample = dd_in[i].sample
                  /\ DOMAIN dd_out[i] = DOMAIN dd_in[i]
                  /\ k = 0 => dd_out[i] = dd_in[i]
                  /\ k > 0 => dd_out[i].name = dd_in[i].name \o <<"_">> \o NatToString(k)

\* Three fields of one name and different types
C25_Witness ==
    /\ dd_pc = "done"
    /\ Len(dd_in) = 3
    /\ dd_in[1].name = dd_in[2].name /\ dd_in[2].name = dd_in[3].name
    /\ dd_in[1].type # dd_in[2].type
    /\ dd_out[1].name = <<"x">>
    /\ dd_out[2].name = <<"x", "_", "1">>
    /\ dd_out[3].name = <<"x", "_", "2">>

\* The exclusion selectors in force in the run of analyzeUrl
AnalyzeExclusions ==
    an_opts.excludeSelectors \o (IF an_opts.ignoreNav THEN NAV_SELECTORS ELSE <<>>)

\* The element is one the miner would admit in this run
MinerAdmits(el) ==
    /\ \A k \in 1..Len(AnalyzeExclusions) :
          SelectorValid(AnalyzeExclusions[k])
              => ~MatchesOrInside(an_doc, el, AnalyzeExclusions[k])
    /\ an_opts.minChildren # <<>> => Len(Children(an_doc, el)) >= an_opts.minChildren[1]
    /\ an_opts.minTextLength # <<>>
          => Len(Trim(textContent(an_doc, el))) >= an_opts.minTextLength[1]

\* C26: when the pattern in hand was mined, every container inferFields
\* samples is an element the miner admitted: none matches an exclusion
\* selector in force or lies inside an element that does, and none falls
\* short of minChildren or minTextLength.
C26_SamplesWereAdmitted ==
    an_pc = "assemble" /\ an_opts.containerSelector = <<>>
        /\ SelectorValid(an_best[1].selector)
        => \A k \in 1..Len(SampledContainers) : MinerAdmits(SampledContainers[k])

\* The tag of a mined selector tag.class...: what precedes its first dot
TagOfSelector(selector) ==
    LET dot == CHOOSE i \in 1..Len(selector) :
                   selector[i] = "." /\ \A j \in 1..(i - 1) : selector[j] # "."
    IN  SubSeq(selector, 1, dot - 1)

TableBonusAsStated(selector, preferTable) ==
    IF ~preferTable THEN 0
    ELSE IF TagOfSelector(selector) = <<"t", "r">> THEN 25 * ScoreScale
    ELSE IF \E i \in 1..Len(selector) :
                \/ i + 4 <= Len(selector) /\ SubSeq(selector, i, i + 4) = <<"t", "a", "b", "l", "e">>
                \/ i + 4 <= Len(selector) /\ SubSeq(selector, i, i + 4) = <<"t", "b", "o", "d", "y">>
         THEN 15 * ScoreScale
    ELSE 0

AnchorPenaltyAsStated(selector) ==
    IF TagOfSelector(selector) = <<"a">> THEN -15 * ScoreScale ELSE 0

\* C27: in the score of a pattern whose diversity is at least 0.2, the table
\* bonus is 0 when preferTable is off, and otherwise 25 when the selector's
\* tag is tr, 15 for any other selector whose text contains "table" or
\* "tbody", and 0 for the rest; the anchor penalty is -15 when the
\* selector's tag is a and 0 for every other tag; the total, which is the
\* score, is the sum of the count, depth, diversity, child, table and anchor
\* terms.
C27_TableAndAnchorTerms ==
    sc_pc = "done" =>
        \A i \in 1..Len(sc_scored) :
            LET s == sc_scored[i]
                selector == s.pattern.selector
            IN  5 * s.diversityScore >= DivScale /\ s.breakdown # <<>> =>
                    LET b == s.breakdown[1]
                    IN  /\ b.tableBonusScore = TableBonusAsStated(selector, sc_opts.preferTable)
                        /\ b.anchorPenalty = AnchorPenaltyAsStated(selector)
                        /\ b.totalScore = b.countScore + b.depthScore + b.diversityScore
                                          + b.childScore + b.tableBonusScore + b.anchorPenalty
                        /\ s.score = b.totalScore

\* A run with preferTable and debug scored a.table-link: the bonus of 15 for
\* the word "table" and the anchor penalty are both in its breakdown
C27_Witness ==
    /\ sc_pc = "done" /\ Len(sc_scored) = 1 /\ sc_scored[1].breakdown # <<>>
    /\ sc_opts.preferTable
    /\ sc_scored[1].pattern.selector = <<"a", ".", "t", "a", "b", "l", "e", "-", "l", "i", "n", "k">>
    /\ sc_scored[1].breakdown[1].tableBonusScore = 15 * ScoreScale
    /\ sc_scored[1].breakdown[1].anchorPenalty = -15 * ScoreScale

\* The pattern was forced to the score -100
Gated(scoredPattern) == scoredPattern.score = -100 * ScoreScale

MalformedManualSelector ==
    an_opts.containerSelector # <<>> /\ ~SelectorValid(an_opts.containerSelector)

\* C28: a run given a malformed manual container selector settles with an
\* error, never with a schema and never with NO_PATTERNS_FOUND; once the
\* selector has been handed to the page, the error the caller gets is an
\* AnalyzerError (NAVIGATION_ERROR) whose cause is the selector's syntax error.
C28_MalformedSelectorPropagates ==
    an_pc = "done" /\ MalformedManualSelector
        => /\ an_outcome.kind = "error"
           /\ an_outcome.code # "NO_PATTERNS_FOUND"
           /\ CallCount("getManualPattern") > 0
                  => an_outcome.code = "NAVIGATION_ERROR" /\ an_outcome.cause = "SyntaxError"

C28_Witness ==
    /\ an_pc = "done" /\ MalformedManualSelector
    /\ CallCount("getManualPattern") = 1
    /\ an_outcome.code = "NAVIGATION_ERROR" /\ an_outcome.cause = "SyntaxError"
    /\ an_browser = "closed"

UnsafeChars == {":", "[", "]", "*", "@", "#", ">", "~", "+"}

\* The class tokens written in a selector or path: what follows each dot, up
\* to the next dot, space, ">" or "#" or to the end
ClassTokens(text) ==
    LET Ends(i) == i > Len(text) \/ text[i] \in {".", " ", ">", "#"}
        EndOf(i) == CHOOSE e \in i..Len(text) : Ends(e + 1) /\ \A j \in (i + 1)..e : ~Ends(j)
    IN  {SubSeq(text, i + 1, EndOf(i + 1)) : i \in {d \in 1..(Len(text) - 1) : text[d] = "." /\ ~Ends(d + 1)}}

\* The token is none the exported classifier calls a utility class: it is
\* outside the fixed set and has none of the unsafe characters
NotUtility(token) ==
    /\ token \notin UTILITY_CLASSES
    /\ \A i \in 1..Len(token) : token[i] \notin UnsafeChars
    /\ ~isUtilityClass(token)

\* kept is tokens without its utility classes, the others in their order
KeptInOrder(kept, tokens) ==
    LET semantic == {i \in 1..Len(tokens) : ~isUtilityClass(tokens[i])}
        Nth(j) == CHOOSE i \in semantic : Cardinality({x \in semantic : x < i}) = j - 1
    IN  /\ Len(kept) = Cardinality(semantic)
        /\ \A j \in 1..Len(kept) : kept[j] = tokens[Nth(j)]

\* The entries of the field map of the run at hand
RawFieldsAtHand == rawFields(an_doc, an_best[1].selector, an_opts)

\* The part of a field's selector that inferFields writes: what follows the
\* container selector
WrittenPart(fieldSelector) ==
    SubSeq(fieldSelector, Len(an_best[1].selector) + 1, Len(fieldSelector))

\* For every element of the page: the page's classifier agrees with the
\* exported one on every class token, and the classes kept are the tokens
\* that are no utility class, in attribute order
ClassifiersAgree ==
    \A e \in 1..Len(an_doc) :
        /\ \A i \in 1..Len(an_doc[e].classes) :
              injected_isUtilityClass(an_doc[e].classes[i]) = isUtilityClass(an_doc[e].classes[i])
        /\ KeptInOrder(getSemanticClasses(an_doc[e].classes), an_doc[e].classes)
        /\ \A i \in 1..Len(getSemanticClasses(an_doc[e].classes)) :
              NotUtility(getSemanticClasses(an_doc[e].classes)[i])

MinedTokensSemantic ==
    \A k \in 1..Len(an_patterns) : \A token \in ClassTokens(an_patterns[k].selector) : NotUtility(token)

PathTokensSemantic ==
    \A k \in 1..Len(RawFieldsAtHand) : \A token \in ClassTokens(RawFieldsAtHand[k].key) : NotUtility(token)

\* C30 as stated: no class token of a mined container selector, of a field's
\* selector or of a field's path is a utility class; the kept tokens are in
\* attribute order; the page's classifier agrees with the exported one.
C30_NoUtilityToken ==
    an_pc = "assemble" /\ SelectorValid(an_best[1].selector) =>
        /\ MinedTokensSemantic
        /\ PathTokensSemantic
        /\ \A k \in 1..Len(an_fields) : \A token \in ClassTokens(an_fields[k].selector) : NotUtility(token)
        /\ ClassifiersAgree

\* C30, amended: as stated, except that of a field's selector only the part
\* inferFields writes is meant; the selector begins with the container
\* selector, which with a manual container is the caller's text as given.
C30_NoUtilityTokenWritten ==
    an_pc = "assemble" /\ SelectorValid(an_best[1].selector) =>
        /\ MinedTokensSemantic
        /\ PathTokensSemantic
        /\ \A k \in 1..Len(an_fields) :
              /\ StartsWith(an_fields[k].selector, an_best[1].selector)
              /\ \A token \in ClassTokens(WrittenPart(an_fields[k].selector)) : NotUtility(token)
        /\ an_opts.containerSelector = <<>> =>
              \A k \in 1..Len(an_fields) :
                  \A token \in ClassTokens(an_fields[k].selector) : NotUtility(token)
        /\ ClassifiersAgree

\* The miner found li.item on the page of utility classes and the link's
\* field has the selector li.item a.title
C30_Witness ==
    /\ an_pc = "assemble" /\ an_doc = DocUtility /\ an_opts.containerSelector = <<>>
    /\ an_best[1].selector = SelLiItem
    /\ \E k \in 1..Len(an_fields) :
          an_fields[k].selector = SelLiItem \o <<" ", "a", ".", "t", "i", "t", "l", "e">>
    /\ \E k \in 1..Len(RawFieldsAtHand) :
          ClassTokens(RawFieldsAtHand[k].key) = {<<"p", "-">>}

====
